---- MODULE Spec2Model ----
(***************************************************************************)
(* Render Dependency Graph of QTRender: RDGBuilder / RenderGraph           *)
(* (resource registry, pass recorder, compiler, executor) and the          *)
(* RDGResourcePool aliasing pool.                                          *)
(*                                                                         *)
(* Bit masks (vk::PipelineStageFlags, vk::AccessFlags) are sets of flag    *)
(* names: | is \cup, the empty mask (eNone) is {}.  A handle is the        *)
(* integer RenderGraph::generateNextHandle issued; 0 is kInvalidHandle.    *)
(***************************************************************************)
EXTENDS Integers, Sequences, FiniteSets, TLC

\* ------------------------------------------------------------------ bounds
MaxRes == 2
MaxPasses == 3
MaxDecls == 3

kInvalidHandle == 0

\* ------------------------------------------------------------ vocabulary
TopOfPipe == {"TopOfPipe"}
ColorAttachmentOutput == {"ColorAttachmentOutput"}
FragmentTests == {"EarlyFragmentTests", "LateFragmentTests"}
AccessNone == {}

\* readTexture argument pairs (stages, access) the callers are taken to use
TextureReadArgs ==
    { [stages |-> {"FragmentShader"}, access |-> {"ShaderRead"}],
      [stages |-> {"Transfer"}, access |-> {"TransferRead"}] }

\* writeStorageTexture / writeStorageBuffer / readBuffer argument pairs
StorageWriteArgs ==
    { [stages |-> {"ComputeShader"}, access |-> {"ShaderWrite"}],
      [stages |-> {"ComputeShader"}, access |-> AccessNone] }
BufferReadArgs == { [stages |-> {"VertexShader"}, access |-> {"UniformRead"}] }

LoadOps == {"Clear", "Load"}

\* registerExternalTexture's currentLayout argument
ImportLayouts == {"ShaderReadOnlyOptimal"}

VARIABLES
    m_resources,       \* m_textureResources and m_bufferResources, by handle
    m_textureLayouts,  \* handle -> tracked layout
    m_passes,          \* declaration order
    m_compiledPasses,  \* [active, barriers] per pass
    m_compiled,
    m_executed,        \* RenderGraph::m_executed
    builderExecuted,   \* RDGBuilder::m_executed
    pc,                \* position inside RDGBuilder::execute, "idle" outside it
    passIndex,         \* loop variable of RenderGraph::execute
    m_insideGraphicsPass,
    cmd,               \* commands recorded into the command buffer of the running execute
    submits,           \* queue submissions: the fence attached and the commands
    syncInfo,          \* what execute found behind its RDGSyncInfo* argument
    m_frameTextures,   \* m_frameTextures and m_frameBuffers: backings this graph created
    m_texturePool,     \* RDGTexturePool::m_availableResources
    m_bufferPool,      \* RDGBufferPool::m_availableResources
    result,            \* how the last execute call ended
    destructor,        \* position inside ~RDGBuilder, "none" while the builder lives
    m_maxFramesInFlight,  \* RDGFrameSyncManager: 0 while no manager is constructed
    m_currentFrame,
    m_frameSyncInfos,  \* per slot: waitSemaphores, signalSemaphores, executionFence
    fenceSignaled,     \* the device's state of m_inFlightFences, per slot
    fenceCalls,        \* the waitForFences / resetFences calls made so far, in order
    m_threadPools,     \* CommandPoolManager, per manager: thread id -> ThreadCommandPool
    t_threadPool,      \* the static thread_local cache, per thread
    threadCommandPools,  \* the ThreadCommandPool objects, by identity
    commandBufferHandles,  \* the live CommandBufferHandle objects
    pendingBuffers,    \* command buffers of queue submissions the device has not completed
    accesses,          \* what the last CommandPoolManager operation touched
    m_transform,       \* SceneNode, per node
    m_parent,          \* per node: the node m_parent locks to, 0 when it is empty
    m_children,
    m_worldMatrixDirty,
    m_cachedWorldMatrix,
    sceneFault,        \* "none", or how a SceneNode call ended the process
    worldMatrixReturned,  \* what the last SceneNode call returned, node 0 for void
    m_mtx,             \* ResourceManager::m_mtx: the thread that holds it, 0 when free
    callStack,         \* per thread: the ResourceManager functions it is inside
    m_textureCache,    \* the keys of ResourceManager::m_textureCache
    m_materialCache,
    deviceCompleted,   \* how many of the queue's submissions the device has finished
    waitingOn          \* the waitForFences call the caller is blocked in: caller and fence

vars == << m_resources, m_textureLayouts, m_passes, m_compiledPasses, m_compiled,
           m_executed, builderExecuted, pc, passIndex, m_insideGraphicsPass, cmd,
           submits, syncInfo, m_frameTextures, m_texturePool, m_bufferPool, result,
           destructor, m_maxFramesInFlight, m_currentFrame, m_frameSyncInfos,
           fenceSignaled, fenceCalls, m_threadPools, t_threadPool, threadCommandPools,
           commandBufferHandles, pendingBuffers, accesses, m_transform, m_parent,
           m_children, m_worldMatrixDirty, m_cachedWorldMatrix, sceneFault,
           worldMatrixReturned, m_mtx, callStack, m_textureCache, m_materialCache,
           deviceCompleted, waitingOn >>

commandPoolVars == << m_threadPools, t_threadPool, threadCommandPools,
                      commandBufferHandles, pendingBuffers, accesses >>

sceneVars == << m_transform, m_parent, m_children, m_worldMatrixDirty,
                m_cachedWorldMatrix, sceneFault, worldMatrixReturned >>

resourceManagerVars == << m_mtx, callStack, m_textureCache, m_materialCache >>

componentVars == << commandPoolVars, sceneVars, resourceManagerVars, deviceCompleted,
                    waitingOn >>

syncVars == << m_maxFramesInFlight, m_currentFrame, m_frameSyncInfos, fenceSignaled,
               fenceCalls >>

\* no RDGFrameSyncManager has been constructed
NoSyncManager ==
    /\ m_maxFramesInFlight = 0
    /\ m_currentFrame = 0
    /\ m_frameSyncInfos = << >>
    /\ fenceSignaled = << >>
    /\ fenceCalls = << >>

\* the components next to the render graph, before any of them is used
MaxThreads == 2
MaxManagers == 2
Threads == 1..MaxThreads
Managers == 1..MaxManagers

\* no CommandPoolManager has created a pool: 0 is the null shared_ptr
NoCommandPools ==
    /\ m_threadPools = [M \in Managers |-> [t \in Threads |-> 0]]
    /\ t_threadPool = [t \in Threads |-> 0]
    /\ threadCommandPools = << >>
    /\ commandBufferHandles = {}
    /\ pendingBuffers = {}
    /\ accesses = {}

\* ResourceManager after initialize: the mutex free, nobody inside, the two default
\* textures in the cache (createdefaulttextures)
ResourceManagerInitialized ==
    /\ m_mtx = 0
    /\ callStack = [t \in Threads |-> << >>]
    /\ m_textureCache = { << "__default_white__", 0, "" >>, << "__default_normal__", 0, "" >> }
    /\ m_materialCache = {}

MaxNodes == 3
Nodes == 1..MaxNodes

\* Transform's default member values
DefaultTransform == [position |-> 0, rotation |-> 0, scale |-> 1]

\* glm::mat4{1.0f}: a matrix is written as the sequence of local matrices it is the
\* product of, the identity as the empty product
Identity == << >>

\* after a call that returns void
NothingReturned == [node |-> 0, value |-> Identity]

\* SceneNode::SceneNode for every node: the members' default initialisers
SceneNodesConstructed ==
    /\ m_transform = [n \in Nodes |-> DefaultTransform]
    /\ m_parent = [n \in Nodes |-> 0]
    /\ m_children = [n \in Nodes |-> << >>]
    /\ m_worldMatrixDirty = [n \in Nodes |-> TRUE]
    /\ m_cachedWorldMatrix = [n \in Nodes |-> Identity]
    /\ sceneFault = "none"
    /\ worldMatrixReturned = NothingReturned

NoComponents ==
    /\ NoCommandPools
    /\ SceneNodesConstructed
    /\ ResourceManagerInitialized
    /\ deviceCompleted = 0
    /\ waitingOn = {}

Handles == 1..(MaxRes + 1)

\* ------------------------------------------------------ resource records
\* firstPassIndex starts as UINT32_MAX, written -1 here: it is read only once isUsed
\* is set, and updateUsage overwrites it when it sets isUsed
RDGResourceLifetime == [firstPassIndex |-> -1, lastPassIndex |-> 0, isUsed |-> FALSE]

\* m_physicalImage / m_physicalBuffer: << >> is nullptr
nullptr == << >>

NewResource(kind, type, swap, physical, currentLayout) ==
    [kind |-> kind, type |-> type, swapChain |-> swap, physical |-> physical,
     currentLayout |-> currentLayout, desc |-> "desc", lifetime |-> RDGResourceLifetime]

IsTexture(res, h) == h \in 1..Len(res) /\ res[h].kind = "Texture"
IsBuffer(res, h) == h \in 1..Len(res) /\ res[h].kind = "Buffer"
isExternal(r) == r.type = "External"
isTransient(r) == r.type = "Transient"

\* A caller-owned vkcore::Image / vkcore::Buffer: its identity is its handle's
ExternalObject(h) == << "external", h >>

EmptyPass ==
    [textureReads |-> << >>, colorAttachments |-> << >>,
     depthAttachment |-> [handle |-> kInvalidHandle, loadOp |-> "Clear"],
     textureWrites |-> << >>, bufferReads |-> << >>, bufferWrites |-> << >>]

DeclCount(p) ==
    Len(p.textureReads) + Len(p.colorAttachments) + Len(p.textureWrites)
    + Len(p.bufferReads) + Len(p.bufferWrites)
    + (IF p.depthAttachment.handle # kInvalidHandle THEN 1 ELSE 0)

RECURSIVE TotalDecls(_)
TotalDecls(ps) == IF ps = << >> THEN 0 ELSE DeclCount(Head(ps)) + TotalDecls(Tail(ps))

Init ==
    /\ m_resources = << >>
    /\ m_textureLayouts = [h \in Handles |-> "Undefined"]
    /\ m_passes = << >>
    /\ m_compiledPasses = << >>
    /\ m_compiled = FALSE
    /\ m_executed = FALSE
    /\ builderExecuted = FALSE
    /\ pc = "idle"
    /\ passIndex = 0
    /\ m_insideGraphicsPass = FALSE
    /\ cmd = << >>
    /\ submits = << >>
    /\ syncInfo = "null"
    /\ m_frameTextures = {}
    /\ m_texturePool = << >>
    /\ m_bufferPool = << >>
    /\ result = "none"
    /\ destructor = "none"
    /\ NoSyncManager
    /\ NoComponents

\* ---------------------------------------------------------------- compile
\* Pass indices are the source's: the pass at position i of m_passes has index i - 1.

RECURSIVE Fold(_, _, _)
Fold(Op(_, _), acc, s) == IF s = << >> THEN acc ELSE Fold(Op, Op(acc, Head(s)), Tail(s))

HandlesOf(s) == { s[i].handle : i \in 1..Len(s) }

buildDependencyGraph(passes) == [i \in 1..Len(passes) |-> [active |-> TRUE, barriers |-> << >>]]

\* cullUnusedPasses, step 1: does the pass write a resource that has a record and is external
writesExternalResource_Any(res, p) == TRUE

writesExternalResource(res, p) ==
    \/ \E i \in 1..Len(p.colorAttachments) :
          IsTexture(res, p.colorAttachments[i].handle)
          /\ isExternal(res[p.colorAttachments[i].handle])
    \/ /\ p.depthAttachment.handle # kInvalidHandle
       /\ IsTexture(res, p.depthAttachment.handle)
       /\ isExternal(res[p.depthAttachment.handle])
    \/ \E i \in 1..Len(p.textureWrites) :
          IsTexture(res, p.textureWrites[i].handle)
          /\ isExternal(res[p.textureWrites[i].handle])
    \/ \E i \in 1..Len(p.bufferWrites) :
          IsBuffer(res, p.bufferWrites[i].handle)
          /\ isExternal(res[p.bufferWrites[i].handle])

\* writesRequiredResource with the depth attachment left out of the test
writesRequiredResource_NoDepth(p, required) ==
    \E requiredResource \in required :
        \/ requiredResource \in HandlesOf(p.colorAttachments)
        \/ requiredResource \in HandlesOf(p.textureWrites)
        \/ requiredResource \in HandlesOf(p.bufferWrites)

\* cullUnusedPasses, step 2, inner test: the pass writes one of the handles read
writesRequiredResource(p, required) ==
    \E requiredResource \in required :
        \/ requiredResource \in HandlesOf(p.colorAttachments)
        \/ p.depthAttachment.handle = requiredResource
        \/ requiredResource \in HandlesOf(p.textureWrites)
        \/ requiredResource \in HandlesOf(p.bufferWrites)

readResources(p) == HandlesOf(p.textureReads) \cup HandlesOf(p.bufferReads)

\* the for (i = 0; i < currentPassIndex; ++i) loop: c = [reachable, workList]
RECURSIVE cullScan(_, _, _, _)
cullScan(passes, c, currentPassIndex, i) ==
    IF i >= currentPassIndex THEN c
    ELSE IF ~c.reachable[i + 1]
            /\ writesRequiredResource(passes[i + 1], readResources(passes[currentPassIndex + 1]))
         THEN cullScan(passes,
                       [reachable |-> [c.reachable EXCEPT ![i + 1] = TRUE],
                        workList |-> Append(c.workList, i)],
                       currentPassIndex, i + 1)
         ELSE cullScan(passes, c, currentPassIndex, i + 1)

\* the while (!workList.empty()) loop
RECURSIVE cullWorkList(_, _)
cullWorkList(passes, c) ==
    IF c.workList = << >> THEN c.reachable
    ELSE LET currentPassIndex == c.workList[Len(c.workList)]
             popped == [c EXCEPT !.workList = SubSeq(@, 1, Len(@) - 1)]
         IN cullWorkList(passes, cullScan(passes, popped, currentPassIndex, 0))

RECURSIVE rootWorkList(_, _, _)
rootWorkList(res, passes, i) ==
    IF i >= Len(passes) THEN << >>
    ELSE (IF writesExternalResource(res, passes[i + 1]) THEN << i >> ELSE << >>)
         \o rootWorkList(res, passes, i + 1)

\* cullUnusedPasses: the reachable vector it hands to setActive
cullUnusedPasses(res, passes) ==
    cullWorkList(passes,
                 [reachable |-> [i \in 1..Len(passes) |-> writesExternalResource(res, passes[i])],
                  workList |-> rootWorkList(res, passes, 0)])

\* RDGResourceLifetime::updateUsage
updateUsage(lt, idx) ==
    IF ~lt.isUsed
    THEN [firstPassIndex |-> idx, lastPassIndex |-> idx, isUsed |-> TRUE]
    ELSE [firstPassIndex |-> IF idx < lt.firstPassIndex THEN idx ELSE lt.firstPassIndex,
          lastPassIndex |-> IF idx > lt.lastPassIndex THEN idx ELSE lt.lastPassIndex,
          isUsed |-> TRUE]

\* RDGResourceLifetime::overlapsWith
overlapsWith(a, b) ==
    IF ~a.isUsed \/ ~b.isUsed THEN FALSE
    ELSE ~(a.lastPassIndex < b.firstPassIndex \/ b.lastPassIndex < a.firstPassIndex)

\* every handle a pass declares, with the map analyzeResourceLifetime looks it up in
TextureDecls(p) ==
    HandlesOf(p.textureReads) \cup HandlesOf(p.textureWrites) \cup HandlesOf(p.colorAttachments)
    \cup (IF p.depthAttachment.handle # kInvalidHandle THEN {p.depthAttachment.handle} ELSE {})
BufferDecls(p) == HandlesOf(p.bufferReads) \cup HandlesOf(p.bufferWrites)

Touches(res, p, h) ==
    \/ IsTexture(res, h) /\ h \in TextureDecls(p)
    \/ IsBuffer(res, h) /\ h \in BufferDecls(p)

analyzeResourceLifetime(res, passes, active) ==
    LET touch(r, idx) ==
            [h \in 1..Len(r) |->
                IF active[idx + 1] /\ Touches(r, passes[idx + 1], h)
                THEN [r[h] EXCEPT !.lifetime = updateUsage(@, idx)]
                ELSE r[h]]
    IN Fold(touch, res, [i \in 1..Len(passes) |-> i - 1])

\* validateResourceStates: FALSE when it throws
validateResourceStates(res, passes, active) ==
    \A i \in 1..Len(passes) :
        active[i] =>
            /\ \A h \in HandlesOf(passes[i].textureReads) : IsTexture(res, h)
            /\ \A h \in HandlesOf(passes[i].bufferReads) : IsBuffer(res, h)

\* ------------------------------------------------------- computeBarriers
\* ResourceAccessInfo when the access map outlives the builder: after a submission
\* every resource is found as last written by a color attachment
ResourceAccessInfo_Carried ==
    IF submits = << >>
    THEN [lastStages |-> TopOfPipe, lastAccess |-> AccessNone, wasWrite |-> FALSE]
    ELSE [lastStages |-> ColorAttachmentOutput, lastAccess |-> {"ColorAttachmentWrite"},
          wasWrite |-> TRUE]

ResourceAccessInfo == [lastStages |-> TopOfPipe, lastAccess |-> AccessNone, wasWrite |-> FALSE]

\* addImageBarrier (the aspect mask, derived from the format, is left out)
addImageBarrier(b, h, oldLayout, newLayout, srcAccess, dstAccess, srcStages, dstStages) ==
    [b EXCEPT !.out = Append(@, [type |-> "Image", handle |-> h,
                                 srcStages |-> srcStages, dstStages |-> dstStages,
                                 srcAccess |-> srcAccess, dstAccess |-> dstAccess,
                                 oldLayout |-> oldLayout, newLayout |-> newLayout])]

\* addBufferBarrier (oldLayout / newLayout keep RDGBarrier's defaults)
addBufferBarrier(b, h, srcAccess, dstAccess, srcStages, dstStages) ==
    [b EXCEPT !.out = Append(@, [type |-> "Buffer", handle |-> h,
                                 srcStages |-> srcStages, dstStages |-> dstStages,
                                 srcAccess |-> srcAccess, dstAccess |-> dstAccess,
                                 oldLayout |-> "Undefined", newLayout |-> "Undefined"])]

\* setLayout with the tracked layout left as it was
setLayout_Stale(b, h, layout) == b

setLayout(b, h, layout) == [b EXCEPT !.layouts[h] = layout]

\* setAccess with the stages of the access not recorded
setAccess_ForgetStages(b, h, stages, access, wasWrite) ==
    [b EXCEPT !.tex[h] = [lastStages |-> TopOfPipe, lastAccess |-> access,
                          wasWrite |-> wasWrite]]

setAccess(b, h, stages, access, wasWrite) ==
    [b EXCEPT !.tex[h] = [lastStages |-> stages, lastAccess |-> access, wasWrite |-> wasWrite]]

setBufferAccess(b, h, stages, access, wasWrite) ==
    [b EXCEPT !.buf[h] = [lastStages |-> stages, lastAccess |-> access, wasWrite |-> wasWrite]]

\* one iteration of: for (const auto &textureRead : pass->m_textureReads)
textureReadBarrier(res, b, d) ==
    IF ~IsTexture(res, d.handle) THEN b
    ELSE LET requiredLayout == d.layout
             currentLayout == b.layouts[d.handle]
             accessInfo == b.tex[d.handle]
             b1 == IF accessInfo.wasWrite
                   THEN setLayout(addImageBarrier(b, d.handle, currentLayout, requiredLayout,
                                                  accessInfo.lastAccess, d.access,
                                                  accessInfo.lastStages, d.stages),
                                  d.handle, requiredLayout)
                   ELSE IF currentLayout # requiredLayout
                   THEN setLayout(addImageBarrier(b, d.handle, currentLayout, requiredLayout,
                                                  AccessNone, d.access, TopOfPipe, d.stages),
                                  d.handle, requiredLayout)
                   ELSE b
         IN setAccess(b1, d.handle, d.stages, d.access, FALSE)

\* the body shared by the three texture write loops
textureWriteBarrier(res, b, h, requiredLayout, dstAccess, dstStages) ==
    IF ~IsTexture(res, h) THEN b
    ELSE LET currentLayout == b.layouts[h]
             accessInfo == b.tex[h]
             b1 == IF accessInfo.lastAccess # AccessNone \/ currentLayout # requiredLayout
                   THEN setLayout(addImageBarrier(b, h, currentLayout, requiredLayout,
                                                  accessInfo.lastAccess, dstAccess,
                                                  accessInfo.lastStages, dstStages),
                                  h, requiredLayout)
                   ELSE b
         IN setAccess(b1, h, dstStages, dstAccess, TRUE)

\* one iteration of: for (const auto &colorAttachment : pass->m_colorAttachments)
colorAttachmentBarrier(res, b, d) ==
    textureWriteBarrier(res, b, d.handle, "ColorAttachmentOptimal",
                        {"ColorAttachmentWrite"}
                        \cup (IF d.loadOp = "Load" THEN {"ColorAttachmentRead"} ELSE {}),
                        ColorAttachmentOutput)

\* if (pass->m_depthAttachment.handle.isValid())
depthAttachmentBarrier(res, b, d) ==
    IF d.handle = kInvalidHandle THEN b
    ELSE textureWriteBarrier(res, b, d.handle, "DepthStencilAttachmentOptimal",
                             {"DepthStencilAttachmentWrite"}
                             \cup (IF d.loadOp = "Load" THEN {"DepthStencilAttachmentRead"} ELSE {}),
                             FragmentTests)

\* one iteration of: for (const auto &textureWrite : pass->m_textureWrites)
storageTextureBarrier(res, b, d) ==
    textureWriteBarrier(res, b, d.handle, "General", d.access, d.stages)

\* one iteration of: for (const auto &bufferRead : pass->m_bufferReads)
bufferReadBarrier(res, b, d) ==
    IF ~IsBuffer(res, d.handle) THEN b
    ELSE LET accessInfo == b.buf[d.handle]
             b1 == IF accessInfo.wasWrite
                   THEN addBufferBarrier(b, d.handle, accessInfo.lastAccess, d.access,
                                         accessInfo.lastStages, d.stages)
                   ELSE b
         IN setBufferAccess(b1, d.handle, d.stages, d.access, FALSE)

\* one iteration of: for (const auto &bufferWrite : pass->m_bufferWrites)
bufferWriteBarrier(res, b, d) ==
    IF ~IsBuffer(res, d.handle) THEN b
    ELSE LET accessInfo == b.buf[d.handle]
             b1 == IF accessInfo.lastAccess # AccessNone
                   THEN addBufferBarrier(b, d.handle, accessInfo.lastAccess, d.access,
                                         accessInfo.lastStages, d.stages)
                   ELSE b
         IN setBufferAccess(b1, d.handle, d.stages, d.access, TRUE)

\* the body of the pass loop, for an active pass; b.out collects the pass's barriers
passBarriers(res, b, p) ==
    LET rd(x, d) == textureReadBarrier(res, x, d)
        ca(x, d) == colorAttachmentBarrier(res, x, d)
        tw(x, d) == storageTextureBarrier(res, x, d)
        br(x, d) == bufferReadBarrier(res, x, d)
        bw(x, d) == bufferWriteBarrier(res, x, d)
        b1 == Fold(rd, [b EXCEPT !.out = << >>], p.textureReads)
        b2 == Fold(ca, b1, p.colorAttachments)
        b3 == depthAttachmentBarrier(res, b2, p.depthAttachment)
        b4 == Fold(tw, b3, p.textureWrites)
        b5 == Fold(br, b4, p.bufferReads)
    IN Fold(bw, b5, p.bufferWrites)

\* computeBarriers: [layouts, tex, buf, out, compiled], compiled the passes with barriers
computeBarriers(res, passes, compiled, layouts) ==
    LET step(b, i) ==
            IF ~compiled[i].active THEN b
            ELSE LET n == passBarriers(res, b, passes[i])
                 IN [n EXCEPT !.compiled[i].barriers = compiled[i].barriers \o n.out]
    IN Fold(step,
            [layouts |-> layouts,
             tex |-> [h \in Handles |-> ResourceAccessInfo],
             buf |-> [h \in Handles |-> ResourceAccessInfo],
             out |-> << >>,
             compiled |-> compiled],
            [i \in 1..Len(passes) |-> i])

\* RenderGraph::compile after its m_compiled test: the five phases
compile(res, passes, layouts) ==
    LET reachable == cullUnusedPasses(res, passes)
        culled == [i \in 1..Len(passes) |->
                      [buildDependencyGraph(passes)[i] EXCEPT !.active = reachable[i]]]
        res1 == analyzeResourceLifetime(res, passes, reachable)
        ok == validateResourceStates(res1, passes, reachable)
        b == computeBarriers(res1, passes, culled, layouts)
    IN [ok |-> ok,
        resources |-> res1,
        compiledPasses |-> IF ok THEN b.compiled ELSE culled,
        layouts |-> IF ok THEN b.layouts ELSE layouts]

\* ------------------------------------------------------- builder actions
validateState == ~builderExecuted

\* The callers are taken to finish building before their first call of execute.
\* ("caught": an exception of an earlier call was caught by the caller.)
Building ==
    pc = "idle" /\ validateState /\ result \in {"none", "caught"} /\ destructor = "none"

execVars == << m_compiledPasses, m_compiled, m_executed, builderExecuted, pc, passIndex,
               m_insideGraphicsPass, cmd, submits, syncInfo, m_frameTextures, m_texturePool,
               m_bufferPool, result, destructor, syncVars, componentVars >>

createTransientTexture ==
    /\ Building /\ Len(m_resources) < MaxRes
    /\ m_resources' = Append(m_resources, NewResource("Texture", "Transient", FALSE, nullptr, "Undefined"))
    /\ UNCHANGED << m_textureLayouts, m_passes >>
    /\ UNCHANGED execVars

createTransientBuffer ==
    /\ Building /\ Len(m_resources) < MaxRes
    /\ m_resources' = Append(m_resources, NewResource("Buffer", "Transient", FALSE, nullptr, "Undefined"))
    /\ UNCHANGED << m_textureLayouts, m_passes >>
    /\ UNCHANGED execVars

registerExternalTexture ==
    /\ Building /\ Len(m_resources) < MaxRes
    /\ \E currentLayout \in ImportLayouts :
         LET h == Len(m_resources) + 1 IN
         /\ m_resources' = Append(m_resources,
                                  NewResource("Texture", "External", FALSE, ExternalObject(h),
                                              currentLayout))
         /\ m_textureLayouts' = [m_textureLayouts EXCEPT ![h] = currentLayout]
    /\ UNCHANGED m_passes
    /\ UNCHANGED execVars

registerExternalBuffer ==
    /\ Building /\ Len(m_resources) < MaxRes
    /\ m_resources' = Append(m_resources,
                             NewResource("Buffer", "External", FALSE,
                                         ExternalObject(Len(m_resources) + 1), "Undefined"))
    /\ UNCHANGED << m_textureLayouts, m_passes >>
    /\ UNCHANGED execVars

importSwapChainImage ==
    /\ Building /\ Len(m_resources) < MaxRes
    /\ LET h == Len(m_resources) + 1 IN
         /\ m_resources' = Append(m_resources, NewResource("Texture", "External", TRUE, nullptr, "Undefined"))
         /\ m_textureLayouts' = [m_textureLayouts EXCEPT ![h] = "Undefined"]
    /\ UNCHANGED m_passes
    /\ UNCHANGED execVars

\* The callers are taken to declare something on a pass before they add the next one.
addPass ==
    /\ Building /\ Len(m_passes) < MaxPasses
    /\ IF m_passes = << >> THEN TRUE ELSE DeclCount(m_passes[Len(m_passes)]) > 0
    /\ m_passes' = Append(m_passes, EmptyPass)
    /\ UNCHANGED << m_resources, m_textureLayouts >>
    /\ UNCHANGED execVars

\* The pass declarations are made on the pass addPass returned last.
CanDeclare == Building /\ m_passes # << >> /\ TotalDecls(m_passes) < MaxDecls

Last == Len(m_passes)

TextureHandles == { h \in 1..Len(m_resources) : m_resources[h].kind = "Texture" }
BufferHandles == { h \in 1..Len(m_resources) : m_resources[h].kind = "Buffer" }

\* ReadLayout without the ShaderRead case
ReadLayout_NoShaderRead(access) ==
    IF "InputAttachmentRead" \in access THEN "ShaderReadOnlyOptimal" ELSE "General"

ReadLayout(access) ==
    IF "ShaderRead" \in access THEN "ShaderReadOnlyOptimal"
    ELSE IF "InputAttachmentRead" \in access THEN "ShaderReadOnlyOptimal"
    ELSE "General"

readTexture ==
    /\ CanDeclare
    /\ \E h \in TextureHandles, a \in TextureReadArgs :
         m_passes' = [m_passes EXCEPT ![Last].textureReads =
                        Append(@, [handle |-> h, stages |-> a.stages, access |-> a.access,
                                   layout |-> ReadLayout(a.access)])]
    /\ UNCHANGED << m_resources, m_textureLayouts >>
    /\ UNCHANGED execVars

readBuffer ==
    /\ CanDeclare
    /\ \E h \in BufferHandles, a \in BufferReadArgs :
         m_passes' = [m_passes EXCEPT ![Last].bufferReads =
                        Append(@, [handle |-> h, stages |-> a.stages, access |-> a.access])]
    /\ UNCHANGED << m_resources, m_textureLayouts >>
    /\ UNCHANGED execVars

writeColorAttachment ==
    /\ CanDeclare
    /\ \E h \in TextureHandles, loadOp \in LoadOps :
         m_passes' = [m_passes EXCEPT ![Last].colorAttachments =
                        Append(@, [handle |-> h, loadOp |-> loadOp])]
    /\ UNCHANGED << m_resources, m_textureLayouts >>
    /\ UNCHANGED execVars

writeDepthStencilAttachment ==
    /\ CanDeclare
    /\ m_passes[Last].depthAttachment.handle = kInvalidHandle
    /\ \E h \in TextureHandles, loadOp \in LoadOps :
         m_passes' = [m_passes EXCEPT ![Last].depthAttachment =
                        [handle |-> h, loadOp |-> loadOp]]
    /\ UNCHANGED << m_resources, m_textureLayouts >>
    /\ UNCHANGED execVars

writeStorageTexture ==
    /\ CanDeclare
    /\ \E h \in TextureHandles, a \in StorageWriteArgs :
         m_passes' = [m_passes EXCEPT ![Last].textureWrites =
                        Append(@, [handle |-> h, stages |-> a.stages, access |-> a.access,
                                   layout |-> "General"])]
    /\ UNCHANGED << m_resources, m_textureLayouts >>
    /\ UNCHANGED execVars

writeStorageBuffer ==
    /\ CanDeclare
    /\ \E h \in BufferHandles, a \in StorageWriteArgs :
         m_passes' = [m_passes EXCEPT ![Last].bufferWrites =
                        Append(@, [handle |-> h, stages |-> a.stages, access |-> a.access])]
    /\ UNCHANGED << m_resources, m_textureLayouts >>
    /\ UNCHANGED execVars

\* ---------------------------------------------------------------- execute
SyncInfos == {"null", "withFence"}

\* the fences the constructor creates, in order
FenceNames == << "fence0", "fence1", "fence2", "fence3", "fence4" >>

\* m_inFlightFences[slot]
InFlightFence_Neighbour(slot) == FenceNames[slot + 2]

InFlightFence_First(slot) == FenceNames[1]

InFlightFence(slot) == FenceNames[slot + 1]

\* getCurrentFrameSync()
CurrentFrameSync == m_frameSyncInfos[m_currentFrame + 1]

\* FenceOf with the fence of the sync bundle dropped
FenceOf_Dropped(s) == "none"

\* vk::Fence fence = (syncInfo && syncInfo->executionFence) ? ... : vk::Fence{}
FenceOf(s) ==
    IF s = "withFence" THEN "executionFence"
    ELSE IF s = "frameSync" /\ CurrentFrameSync.executionFence # "nullopt"
    THEN CurrentFrameSync.executionFence
    ELSE "none"

\* RDGResourcePool::isCompatible
isCompatible(entry, desc) == entry.desc = desc

\* RDGResourcePool::tryAcquire: the position of the first compatible entry, 0 on a miss
tryAcquire(pool, desc, lifetime) ==
    IF \E i \in 1..Len(pool) : isCompatible(pool[i], desc)
    THEN CHOOSE i \in 1..Len(pool) :
            /\ isCompatible(pool[i], desc)
            /\ \A j \in 1..(i - 1) : ~isCompatible(pool[j], desc)
    ELSE 0

\* allocateResources: used transients get a backing; with the pools of a RenderGraph
\* (nothing ever calls release) every tryAcquire misses and a backing is created
\* NeedsBacking without the isUsed() test
NeedsBacking_IgnoreUsed(r) == isTransient(r)

NeedsBacking(r) == isTransient(r) /\ r.lifetime.isUsed

FrameBacking(h) == << "frame", h >>

allocateResources(res, texturePool, bufferPool) ==
    [h \in 1..Len(res) |->
        IF NeedsBacking(res[h])
        THEN LET pool == IF res[h].kind = "Texture" THEN texturePool ELSE bufferPool
                 hit == tryAcquire(pool, res[h].desc, res[h].lifetime)
             IN [res[h] EXCEPT !.physical = IF hit # 0 THEN pool[hit].backing
                                            ELSE FrameBacking(h)]
        ELSE res[h]]

CreatedBackings(before, after) ==
    { after[h].physical : h \in { k \in 1..Len(after) :
                                    /\ NeedsBacking(before[k])
                                    /\ after[k].physical = FrameBacking(k) } }

\* the loop's ++passIndex together with its "if (!isActive()) continue": the index of
\* the first active pass at or after i, the number of passes when there is none
RECURSIVE NextActive(_, _)
NextActive(compiled, i) ==
    IF i >= Len(compiled) \/ compiled[i + 1].active THEN i ELSE NextActive(compiled, i + 1)

\* an exception leaves execute: the command buffer handle and the loop variable die
\* with the call, what was recorded is never submitted
Throws(exception) ==
    /\ result' = exception
    /\ pc' = "idle"
    /\ cmd' = << >>
    /\ passIndex' = 0
    /\ UNCHANGED syncInfo

\* compile without its test of m_compiled
alreadyCompiled_Never == FALSE

\* RenderGraph::compile: if (m_compiled) throw "Already compiled"
alreadyCompiled == m_compiled

\* RDGBuilder::execute up to the first active pass of the loop of RenderGraph::execute
executeCall ==
    /\ pc = "idle"
    /\ IF builderExecuted \/ alreadyCompiled
       THEN \* "Already executed" of RDGBuilder::execute, "Already compiled" of compile
            /\ Throws("error")
            /\ UNCHANGED << m_resources, m_textureLayouts, m_passes, m_compiledPasses,
                            m_compiled, m_executed, builderExecuted, m_insideGraphicsPass,
                            submits, m_frameTextures, m_texturePool, m_bufferPool >>
       ELSE \E c \in {compile(m_resources, m_passes, m_textureLayouts)} :
            \E allocated \in {allocateResources(c.resources, m_texturePool, m_bufferPool)} :
               IF ~c.ok
               THEN \* validateResourceStates threw
                    /\ m_resources' = c.resources
                    /\ m_compiledPasses' = c.compiledPasses
                    /\ Throws("error")
                    /\ UNCHANGED << m_textureLayouts, m_passes, m_compiled, m_executed,
                                    builderExecuted, m_insideGraphicsPass, submits,
                                    m_frameTextures, m_texturePool, m_bufferPool >>
               ELSE /\ m_compiledPasses' = c.compiledPasses
                    /\ m_textureLayouts' = c.layouts
                    /\ m_compiled' = TRUE
                    \* allocateResources (creating a backing is taken to succeed),
                    \* m_commandManager.allocate, cmdBuffer.begin
                    /\ m_resources' = allocated
                    /\ m_frameTextures' = CreatedBackings(c.resources, allocated)
                    /\ cmd' = << [op |-> "begin"] >>
                    /\ passIndex' = NextActive(c.compiledPasses, 0)
                    /\ pc' = "record"
                    /\ UNCHANGED << result, syncInfo >>
                    /\ UNCHANGED << m_passes, m_executed, builderExecuted,
                                    m_insideGraphicsPass, submits, m_texturePool,
                                    m_bufferPool >>

\* execute called by the owner of the builder
execute ==
    /\ destructor = "none"
    /\ executeCall
    /\ UNCHANGED << destructor, syncVars, componentVars >>

\* executeBarriers: the image / buffer barriers that reach vkCmdPipelineBarrier
RecordedBarriers(res, barriers) ==
    SelectSeq(barriers,
              LAMBDA b : \/ b.type = "Image" /\ IsTexture(res, b.handle)
                            /\ res[b.handle].physical # nullptr
                         \/ b.type = "Buffer" /\ IsBuffer(res, b.handle)
                            /\ res[b.handle].physical # nullptr)

RECURSIVE UnionStages(_, _)
UnionStages(barriers, field) ==
    IF barriers = << >> THEN {}
    ELSE (IF field = "src" THEN Head(barriers).srcStages ELSE Head(barriers).dstStages)
         \cup UnionStages(Tail(barriers), field)

executeBarriers(res, barriers) ==
    LET rec == RecordedBarriers(res, barriers)
    IN IF rec = << >> THEN << >>
       ELSE << [op |-> "pipelineBarrier",
                srcStages |-> UnionStages(barriers, "src"),
                dstStages |-> UnionStages(barriers, "dst"),
                barriers |-> rec] >>

isGraphicsPass(p) == p.colorAttachments # << >> \/ p.depthAttachment.handle # kInvalidHandle

\* beginGraphicsPass: the attachments of the vk::RenderingInfo
renderingColorAttachments(res, p) ==
    SelectSeq(p.colorAttachments,
              LAMBDA d : IsTexture(res, d.handle)
                         /\ (res[d.handle].swapChain \/ res[d.handle].physical # nullptr))

hasDepthAttachment(res, p) ==
    /\ p.depthAttachment.handle # kInvalidHandle
    /\ IsTexture(res, p.depthAttachment.handle)
    /\ res[p.depthAttachment.handle].physical # nullptr

\* beginGraphicsPass: renderArea.width > 0 && renderArea.height > 0 (extents are positive)
renderAreaPositive(res, p) ==
    IF p.colorAttachments # << >>
    THEN IsTexture(res, p.colorAttachments[1].handle)
    ELSE hasDepthAttachment(res, p)

\* beginGraphicsPass: the command it records
beginGraphicsPass(res, p, idx) ==
    IF renderAreaPositive(res, p)
    THEN << [op |-> "beginRendering", pass |-> idx,
             colorAttachments |-> HandlesOf(renderingColorAttachments(res, p)),
             depthAttachment |-> IF hasDepthAttachment(res, p)
                                 THEN p.depthAttachment.handle ELSE kInvalidHandle] >>
    ELSE << >>

\* one pass of the loop, up to the call of the callback
executePassBegin ==
    /\ pc = "record"
    /\ passIndex < Len(m_compiledPasses)
    /\ LET cp == m_compiledPasses[passIndex + 1]
           p == m_passes[passIndex + 1]
           bar == executeBarriers(m_resources, cp.barriers)
           beg == IF isGraphicsPass(p) THEN beginGraphicsPass(m_resources, p, passIndex)
                  ELSE << >>
       IN /\ cmd' = cmd \o bar \o beg
          /\ m_insideGraphicsPass' = (m_insideGraphicsPass \/ beg # << >>)
          /\ pc' = "callback"
    /\ UNCHANGED << m_resources, m_textureLayouts, m_passes, m_compiledPasses, m_compiled,
                    m_executed, builderExecuted, passIndex, submits, syncInfo,
                    m_frameTextures, m_texturePool, m_bufferPool, result, destructor,
                    syncVars, componentVars >>

\* what a pass callback may do: return, throw a std::exception, throw anything else
CallbackOutcomes == {"returns", "std_exception", "other_exception"}

\* catch (const std::exception &e) around the callback and around the body of execute
caught(outcome) == outcome = "std_exception"

\* endGraphicsPass: the command it records
endGraphicsPass(inside) == IF inside THEN << [op |-> "endRendering"] >> ELSE << >>

\* the callback of the pass and the rest of the loop body
executePassCallback ==
    /\ pc = "callback"
    /\ \E outcome \in CallbackOutcomes :
        IF outcome = "returns" \/ caught(outcome)
        THEN /\ cmd' = cmd \o << [op |-> "callback", pass |-> passIndex] >>
                       \o (IF isGraphicsPass(m_passes[passIndex + 1])
                           THEN endGraphicsPass(m_insideGraphicsPass) ELSE << >>)
             /\ m_insideGraphicsPass' = (m_insideGraphicsPass
                                         /\ ~isGraphicsPass(m_passes[passIndex + 1]))
             /\ passIndex' = NextActive(m_compiledPasses, passIndex + 1)
             /\ pc' = "record"
             /\ UNCHANGED << result, syncInfo >>
        ELSE \* no catch clause of execute matches: the exception leaves execute
             /\ Throws("callback_exception")
             /\ UNCHANGED m_insideGraphicsPass
    /\ UNCHANGED << m_resources, m_textureLayouts, m_passes, m_compiledPasses, m_compiled,
                    m_executed, builderExecuted, submits, m_frameTextures, m_texturePool,
                    m_bufferPool, destructor, syncVars, componentVars >>

\* RenderGraph::getPhysicalTexture: nullptr for the zero handle and for a handle
\* that is not in m_textureResources
getPhysicalTexture(res, h) ==
    IF h = kInvalidHandle \/ ~IsTexture(res, h) THEN nullptr ELSE res[h].physical

\* RDGResourceAccessor::getTextureView: the view of the image, vk::ImageView{}
\* (written nullptr) when there is no image
getTextureView(res, h) ==
    IF getPhysicalTexture(res, h) = nullptr THEN nullptr
    ELSE << "view", getPhysicalTexture(res, h) >>

\* the RDGSyncInfo* the running execute was called with: ~RDGBuilder passes nullptr,
\* a caller with a frame sync manager passes &getCurrentFrameSync()
SyncArguments ==
    IF destructor = "execute" THEN {"null"}
    ELSE IF m_maxFramesInFlight > 0 THEN {"frameSync"}
    ELSE SyncInfos

\* cmdBuffer.end(), graphicsQueue.submit(submitInfo, fence), m_executed = true; the
\* argument syncInfo is first dereferenced here
executeSubmit ==
    /\ pc = "record"
    /\ passIndex = Len(m_compiledPasses)
    /\ \E s \in SyncArguments, submitOk \in BOOLEAN :
        IF submitOk
        THEN /\ syncInfo' = s
             /\ submits' = Append(submits, [fence |-> FenceOf(s),
                                            commands |-> Append(cmd, [op |-> "end"])])
             /\ m_executed' = TRUE
             /\ builderExecuted' = TRUE
             /\ result' = "ok"
             /\ pc' = "idle"
             /\ cmd' = << >>
             /\ passIndex' = 0
        ELSE \* vk::SystemError, rethrown as std::runtime_error
             /\ Throws("error")
             /\ UNCHANGED << submits, m_executed, builderExecuted >>
    /\ UNCHANGED << m_resources, m_textureLayouts, m_passes, m_compiledPasses, m_compiled,
                    m_insideGraphicsPass, m_frameTextures, m_texturePool, m_bufferPool,
                    destructor, syncVars, componentVars >>

Next ==
    \/ createTransientTexture
    \/ createTransientBuffer
    \/ registerExternalTexture
    \/ registerExternalBuffer
    \/ importSwapChainImage
    \/ addPass
    \/ readTexture
    \/ readBuffer
    \/ writeColorAttachment
    \/ writeDepthStencilAttachment
    \/ writeStorageTexture
    \/ writeStorageBuffer
    \/ execute
    \/ executePassBegin
    \/ executePassCallback
    \/ executeSubmit

Spec == Init /\ [][Next]_vars

\* ----------------------------------------------------- RDGResourcePool alone
\* The pool as a class, driven through release, tryAcquire (by way of
\* allocateTransientTexture) and clear by a client that returns the backings of
\* transients to the pool, as docs/RenderGraph.md describes the frame's clean-up.
\* RenderGraph itself never calls release: under Spec both pools stay empty.

PoolTransients == 2

\* lifetimes analyzeResourceLifetime can leave on a used transient
Lifetimes ==
    { lt \in [firstPassIndex : 0..(MaxPasses - 1), lastPassIndex : 0..(MaxPasses - 1),
              isUsed : {TRUE}] : lt.firstPassIndex <= lt.lastPassIndex }

PoolInit ==
    /\ m_resources \in
         { [h \in 1..PoolTransients |->
               [NewResource("Texture", "Transient", FALSE, nullptr, "Undefined")
                  EXCEPT !.lifetime = lts[h]]] :
           lts \in [1..PoolTransients -> Lifetimes] }
    /\ m_textureLayouts = [h \in Handles |-> "Undefined"]
    /\ m_passes = << >>
    /\ m_compiledPasses = << >>
    /\ m_compiled = TRUE
    /\ m_executed = FALSE
    /\ builderExecuted = FALSE
    /\ pc = "allocate"
    /\ passIndex = 0
    /\ m_insideGraphicsPass = FALSE
    /\ cmd = << >>
    /\ submits = << >>
    /\ syncInfo = "null"
    /\ m_frameTextures = {}
    /\ m_texturePool = << >>
    /\ m_bufferPool = << >>
    /\ result = "none"
    /\ destructor = "none"
    /\ NoSyncManager
    /\ NoComponents

poolVars == << m_textureLayouts, m_passes, m_compiledPasses, m_compiled, m_executed,
               builderExecuted, pc, passIndex, m_insideGraphicsPass, cmd, submits,
               syncInfo, m_bufferPool, result, destructor, syncVars, componentVars >>

\* allocateTransientTexture on one transient: reuse a pooled backing or create one
allocateTransientTexture ==
    /\ \E h \in 1..Len(m_resources) :
        /\ m_resources[h].physical = nullptr
        /\ LET hit == tryAcquire(m_texturePool, m_resources[h].desc, m_resources[h].lifetime)
           IN IF hit # 0
              THEN /\ m_resources' = [m_resources EXCEPT ![h].physical =
                                         m_texturePool[hit].backing]
                   \* m_availableResources.erase(it)
                   /\ m_texturePool' = SubSeq(m_texturePool, 1, hit - 1)
                                       \o SubSeq(m_texturePool, hit + 1, Len(m_texturePool))
                   /\ UNCHANGED m_frameTextures
              ELSE /\ m_resources' = [m_resources EXCEPT ![h].physical = FrameBacking(h)]
                   /\ m_frameTextures' = m_frameTextures \cup {FrameBacking(h)}
                   /\ UNCHANGED m_texturePool
    /\ UNCHANGED poolVars

\* RDGResourcePool::release: the client hands a backing it owns over to the pool
release ==
    /\ \E b \in m_frameTextures :
        /\ m_texturePool' = Append(m_texturePool, [backing |-> b, desc |-> "desc"])
        /\ m_frameTextures' = m_frameTextures \ {b}
    /\ UNCHANGED m_resources
    /\ UNCHANGED poolVars

\* RDGResourcePool::clear
clear ==
    /\ m_texturePool # << >>
    /\ m_texturePool' = << >>
    /\ UNCHANGED << m_resources, m_frameTextures >>
    /\ UNCHANGED poolVars

PoolNext ==
    \/ allocateTransientTexture
    \/ release
    \/ clear

PoolSpec == PoolInit /\ [][PoolNext]_vars

\* ------------------------------------------------- graphs built before execute
\* A builder on which the declaring calls above have been made, about to be executed:
\* the state createTransientTexture, importSwapChainImage, addPass and the pass
\* declarations leave behind.
BuiltGraph(resources, layouts, passes) ==
    /\ m_resources = resources
    /\ m_textureLayouts = layouts
    /\ m_passes = passes
    /\ m_compiledPasses = << >>
    /\ m_compiled = FALSE
    /\ m_executed = FALSE
    /\ builderExecuted = FALSE
    /\ pc = "idle"
    /\ passIndex = 0
    /\ m_insideGraphicsPass = FALSE
    /\ cmd = << >>
    /\ submits = << >>
    /\ syncInfo = "null"
    /\ m_frameTextures = {}
    /\ m_texturePool = << >>
    /\ m_bufferPool = << >>
    /\ result = "none"
    /\ destructor = "none"

\* what writeColorAttachment / writeStorageTexture / readTexture leave on a fresh pass
ColorWriter(h) ==
    { [EmptyPass EXCEPT !.colorAttachments = << [handle |-> h, loadOp |-> l] >>] :
        l \in LoadOps }

StorageWriter(h) ==
    { [EmptyPass EXCEPT !.textureWrites =
          << [handle |-> h, stages |-> a.stages, access |-> a.access,
              layout |-> "General"] >>] : a \in StorageWriteArgs }

ReaderInto(h, target) ==
    { [EmptyPass EXCEPT
          !.textureReads = << [handle |-> h, stages |-> a.stages, access |-> a.access,
                               layout |-> ReadLayout(a.access)] >>,
          !.colorAttachments = << [handle |-> target, loadOp |-> "Load"] >>] :
        a \in TextureReadArgs }

\* P1 writes transient 1, P2 reads it, P3 writes transient 2 (same descriptor), P4
\* reads it; P2 and P4 draw into the swapchain image 3 that the final pass P5 writes
AliasGraphs ==
    { << p1, p2, p3, p4, p5 >> :
        p1 \in ColorWriter(1) \cup StorageWriter(1), p2 \in ReaderInto(1, 3),
        p3 \in ColorWriter(2) \cup StorageWriter(2), p4 \in ReaderInto(2, 3),
        p5 \in ColorWriter(3) }

AliasInit ==
    \E passes \in AliasGraphs :
        BuiltGraph(<< NewResource("Texture", "Transient", FALSE, nullptr, "Undefined"),
                      NewResource("Texture", "Transient", FALSE, nullptr, "Undefined"),
                      NewResource("Texture", "External", TRUE, nullptr, "Undefined") >>,
                   [h \in Handles |-> "Undefined"], passes)
        /\ NoSyncManager
        /\ NoComponents

AliasNext == execute \/ executePassBegin \/ executePassCallback \/ executeSubmit

AliasSpec == AliasInit /\ [][AliasNext]_vars

\* The declarations reject only the zero handle, so a pass can name a handle no
\* resource was created for. Handle 1 is a registered external texture, handle 2
\* has no record.
UnknownHandleGraphs ==
    { << p1, p2 >> :
        p1 \in ColorWriter(2) \cup StorageWriter(2) \cup ReaderInto(2, 1),
        p2 \in { [q EXCEPT !.textureWrites = w.textureWrites] :
                    q \in ColorWriter(1), w \in StorageWriter(2) \cup {EmptyPass} } }

UnknownHandleInit ==
    \E passes \in UnknownHandleGraphs, currentLayout \in {"Undefined", "General"} :
        BuiltGraph(<< NewResource("Texture", "External", FALSE, ExternalObject(1),
                                  currentLayout) >>,
                   [h \in Handles |-> IF h = 1 THEN currentLayout ELSE "Undefined"],
                   passes)
        /\ NoSyncManager
        /\ NoComponents

UnknownHandleSpec == UnknownHandleInit /\ [][AliasNext]_vars

\* ------------------------------------------- a caller that carries on after an error
builderVars == << m_resources, m_textureLayouts, m_passes, m_compiledPasses, m_compiled,
                 m_executed, builderExecuted, m_insideGraphicsPass, submits,
                 m_frameTextures, m_texturePool, m_bufferPool, destructor, syncVars, componentVars >>

\* RDGBuilder::createTexture with a descriptor that is not valid: std::invalid_argument
createTextureInvalid ==
    /\ Building
    /\ Throws("error")
    /\ UNCHANGED builderVars

\* writeDepthStencilAttachment on a pass that has one: "Depth attachment already set"
writeDepthStencilAttachmentAgain ==
    /\ Building /\ m_passes # << >>
    /\ m_passes[Last].depthAttachment.handle # kInvalidHandle
    /\ Throws("error")
    /\ UNCHANGED builderVars

\* the caller catches the exception of a call that failed before the graph was
\* compiled and goes on using the builder
catchException ==
    /\ pc = "idle" /\ destructor = "none"
    /\ result = "error" /\ ~m_compiled /\ ~builderExecuted
    /\ result' = "caught"
    /\ UNCHANGED << pc, passIndex, cmd, syncInfo >>
    /\ UNCHANGED builderVars

CarryOnNext ==
    \/ createTransientTexture
    \/ addPass
    \/ writeColorAttachment
    \/ writeDepthStencilAttachment
    \/ createTextureInvalid
    \/ writeDepthStencilAttachmentAgain
    \/ catchException
    \/ execute
    \/ executePassBegin
    \/ executePassCallback
    \/ executeSubmit

CarryOnSpec == UnknownHandleInit /\ [][CarryOnNext]_vars

\* ------------------------------------------------- the builder from frame to frame
MaxFrames == 3

\* ~RenderGraph: the frame's backings and both pools are cleared
DestroyRenderGraph ==
    /\ m_frameTextures' = {}
    /\ m_texturePool' = << >>
    /\ m_bufferPool' = << >>

\* ~RDGBuilder up to the end of the execute(nullptr) it calls when the builder was never
\* executed; an executed builder goes on to destroy m_pimpl at once
destroyBuilder ==
    /\ pc = "idle" /\ destructor = "none"
    /\ IF builderExecuted
       THEN /\ destructor' = "done"
            /\ DestroyRenderGraph
            /\ UNCHANGED << m_resources, m_textureLayouts, m_passes, m_compiledPasses,
                            m_compiled, m_executed, builderExecuted, pc, passIndex,
                            m_insideGraphicsPass, cmd, submits, syncInfo, result >>
       ELSE /\ destructor' = "execute"
            /\ executeCall
    /\ UNCHANGED << syncVars, componentVars >>

\* the rest of ~RDGBuilder once its execute(nullptr) has ended: a std::exception is
\* swallowed and m_pimpl destroyed; any other exception leaves the destructor, which
\* ends the program (std::terminate)
destroyGraph ==
    /\ pc = "idle" /\ destructor = "execute"
    /\ IF result = "callback_exception"
       THEN /\ destructor' = "terminate"
            /\ UNCHANGED << m_frameTextures, m_texturePool, m_bufferPool >>
       ELSE /\ destructor' = "done"
            /\ DestroyRenderGraph
    /\ UNCHANGED << m_resources, m_textureLayouts, m_passes, m_compiledPasses, m_compiled,
                    m_executed, builderExecuted, pc, passIndex, m_insideGraphicsPass, cmd,
                    submits, syncInfo, result, syncVars, componentVars >>

\* a resource record as the declaring call creates it
FreshResource(r) ==
    [r EXCEPT !.lifetime = RDGResourceLifetime,
              !.physical = IF isTransient(r) THEN nullptr ELSE @]

\* the next frame: a new RDGBuilder (with its own RenderGraph) on which the caller
\* makes the declarations of the frame before; the queue keeps what was submitted
nextFrame ==
    /\ destructor = "done"
    /\ Len(submits) < MaxFrames
    /\ m_resources' = [h \in 1..Len(m_resources) |-> FreshResource(m_resources[h])]
    /\ m_textureLayouts' = [h \in Handles |->
                               IF h \in 1..Len(m_resources)
                               THEN m_resources[h].currentLayout ELSE "Undefined"]
    /\ m_compiledPasses' = << >>
    /\ m_compiled' = FALSE
    /\ m_executed' = FALSE
    /\ builderExecuted' = FALSE
    /\ m_insideGraphicsPass' = FALSE
    /\ syncInfo' = "null"
    /\ result' = "none"
    /\ destructor' = "none"
    /\ UNCHANGED << m_passes, pc, passIndex, cmd, submits, m_frameTextures, m_texturePool,
                    m_bufferPool, syncVars, componentVars >>

\* a pass that reads texture 1 and draws into the swapchain image 2, alone or after a
\* pass that writes texture 1; a pass that only reads texture 1, before a pass that
\* draws into the swapchain image
FrameGraphs ==
    { << p2 >> : p2 \in ReaderInto(1, 2) }
    \cup { << p1, p2 >> : p1 \in ColorWriter(1) \cup StorageWriter(1), p2 \in ReaderInto(1, 2) }
    \cup { << [p1 EXCEPT !.colorAttachments = << >>], p2 >> :
               p1 \in ReaderInto(1, 2), p2 \in ColorWriter(2) }

FrameInit ==
    \E passes \in FrameGraphs,
       first \in { NewResource("Texture", "Transient", FALSE, nullptr, "Undefined") }
                 \cup { NewResource("Texture", "External", FALSE, ExternalObject(1),
                                     currentLayout) : currentLayout \in ImportLayouts } :
        BuiltGraph(<< first, NewResource("Texture", "External", TRUE, nullptr, "Undefined") >>,
                   [h \in Handles |-> IF h = 1 THEN first.currentLayout ELSE "Undefined"],
                   passes)
        /\ NoSyncManager
        /\ NoComponents

FrameNext ==
    \/ execute
    \/ executePassBegin
    \/ executePassCallback
    \/ executeSubmit
    \/ destroyBuilder
    \/ destroyGraph
    \/ nextFrame

FrameSpec == FrameInit /\ [][FrameNext]_vars

\* ---------------------------------------------- the device behind the queue
\* the device finishes the oldest submission it has not finished yet
deviceFinishesSubmission ==
    /\ deviceCompleted < Len(submits)
    /\ deviceCompleted' = deviceCompleted + 1
    /\ UNCHANGED << m_resources, m_textureLayouts, m_passes, m_compiledPasses, m_compiled,
                    m_executed, builderExecuted, pc, passIndex, m_insideGraphicsPass, cmd,
                    submits, syncInfo, m_frameTextures, m_texturePool, m_bufferPool,
                    result, destructor, syncVars, commandPoolVars, resourceManagerVars,
                    sceneVars, waitingOn >>

DeviceNext ==
    \/ execute
    \/ executePassBegin
    \/ executePassCallback
    \/ executeSubmit
    \/ destroyBuilder
    \/ destroyGraph
    \/ nextFrame
    \/ deviceFinishesSubmission

DeviceSpec == FrameInit /\ [][DeviceNext]_vars

\* ------------------------------------------------------- RDGFrameSyncManager
MaxSlots == 2
MaxAdvances == 3
MaxSemaphores == 1

\* RDGSyncInfo::clear
RDGSyncInfoClear_KeepWaits(b) ==
    [b EXCEPT !.signalSemaphores = << >>, !.executionFence = "nullopt"]

RDGSyncInfoClear(b) ==
    [waitSemaphores |-> << >>, signalSemaphores |-> << >>, executionFence |-> "nullopt"]

\* the constructor: every fence created signaled, every bundle bound to its fence
SyncManager(N) ==
    /\ m_maxFramesInFlight = N
    /\ m_currentFrame = 0
    /\ m_frameSyncInfos = [i \in 1..N |->
                              [waitSemaphores |-> << >>, signalSemaphores |-> << >>,
                               executionFence |-> FenceNames[i]]]
    /\ fenceSignaled = [i \in 1..N |-> TRUE]
    /\ fenceCalls = << >>

\* the caller's thread is outside execute and the builder's destructor
CallerIdle == pc = "idle" /\ destructor \in {"none", "done"}

graphVars == << m_resources, m_textureLayouts, m_passes, m_compiledPasses, m_compiled,
               m_executed, builderExecuted, pc, passIndex, m_insideGraphicsPass, cmd,
               submits, syncInfo, m_frameTextures, m_texturePool, m_bufferPool, result,
               destructor, componentVars >>

\* getCurrentFrameSync().addWaitSemaphore(imageAvailable, eColorAttachmentOutput)
addWaitSemaphore ==
    /\ CallerIdle /\ m_maxFramesInFlight > 0
    /\ Len(CurrentFrameSync.waitSemaphores) < MaxSemaphores
    /\ m_frameSyncInfos' = [m_frameSyncInfos EXCEPT ![m_currentFrame + 1].waitSemaphores =
                               Append(@, [semaphore |-> "imageAvailable",
                                          waitStage |-> ColorAttachmentOutput])]
    /\ UNCHANGED << m_maxFramesInFlight, m_currentFrame, fenceSignaled, fenceCalls >>
    /\ UNCHANGED graphVars

\* getCurrentFrameSync().addSignalSemaphore(renderFinished)
addSignalSemaphore ==
    /\ CallerIdle /\ m_maxFramesInFlight > 0
    /\ Len(CurrentFrameSync.signalSemaphores) < MaxSemaphores
    /\ m_frameSyncInfos' = [m_frameSyncInfos EXCEPT ![m_currentFrame + 1].signalSemaphores =
                               Append(@, "renderFinished")]
    /\ UNCHANGED << m_maxFramesInFlight, m_currentFrame, fenceSignaled, fenceCalls >>
    /\ UNCHANGED graphVars

\* how many advanceFrame calls got as far as waitForFences
RECURSIVE CountCalls(_, _, _)
CountCalls(calls, op, fence) ==
    IF calls = << >> THEN 0
    ELSE (IF Head(calls).op = op /\ (fence = "any" \/ Head(calls).fence = fence)
          THEN 1 ELSE 0) + CountCalls(Tail(calls), op, fence)

\* advanceFrame. waitForFences(nextFence, VK_TRUE, UINT64_MAX) returns once the fence
\* is signaled (the call blocks until then, with nothing else running on the
\* caller's thread) or fails; waitResult is what it returns.
advanceFrame ==
    /\ CallerIdle /\ m_maxFramesInFlight > 0
    /\ CountCalls(fenceCalls, "waitForFences", "any") < MaxAdvances
    /\ LET next == (m_currentFrame + 1) % m_maxFramesInFlight
           nextFence == InFlightFence(next)
           bundle == m_frameSyncInfos[next + 1]
       IN /\ m_currentFrame' = next
          /\ \E waitResult \in {"eSuccess", "failed"} :
               /\ waitResult = "eSuccess" => fenceSignaled[next + 1]
               /\ IF waitResult # "eSuccess"
                  THEN \* throw std::runtime_error
                       /\ fenceCalls' = Append(fenceCalls,
                              [op |-> "waitForFences", fence |-> nextFence,
                               waitResult |-> waitResult, submitted |-> Len(submits)])
                       /\ UNCHANGED << fenceSignaled, m_frameSyncInfos >>
                  ELSE /\ fenceCalls' = fenceCalls \o
                              << [op |-> "waitForFences", fence |-> nextFence,
                                  waitResult |-> waitResult, submitted |-> Len(submits)],
                                 [op |-> "resetFences", fence |-> nextFence,
                                  waitResult |-> waitResult, submitted |-> Len(submits)] >>
                       /\ fenceSignaled' = [fenceSignaled EXCEPT ![next + 1] = FALSE]
                       /\ IF bundle.executionFence = "nullopt"
                          THEN \* executionFence.value() throws std::bad_optional_access
                               UNCHANGED m_frameSyncInfos
                          ELSE m_frameSyncInfos' =
                                 [m_frameSyncInfos EXCEPT ![next + 1] =
                                    [RDGSyncInfoClear(bundle) EXCEPT
                                        !.executionFence = bundle.executionFence]]
    /\ UNCHANGED m_maxFramesInFlight
    /\ UNCHANGED graphVars

\* the stamp of the last resetFences of a fence, -1 when it was never reset
RECURSIVE LastReset(_, _)
LastReset(calls, fence) ==
    IF calls = << >> THEN -1
    ELSE LET last == calls[Len(calls)]
         IN IF last.op = "resetFences" /\ last.fence = fence THEN last.submitted
            ELSE LastReset(SubSeq(calls, 1, Len(calls) - 1), fence)

\* the device finishes a submission made with a fence after the fence's last reset
\* and signals the fence
gpuSignal ==
    /\ \E slot \in 1..m_maxFramesInFlight :
          /\ ~fenceSignaled[slot]
          /\ \E j \in 1..Len(submits) :
                /\ submits[j].fence = InFlightFence(slot - 1)
                /\ j > LastReset(fenceCalls, InFlightFence(slot - 1))
          /\ fenceSignaled' = [fenceSignaled EXCEPT ![slot] = TRUE]
    /\ UNCHANGED << m_maxFramesInFlight, m_currentFrame, m_frameSyncInfos, fenceCalls >>
    /\ UNCHANGED graphVars

\* the frame loop's graph: one pass drawing into the swapchain image
SyncInit ==
    /\ \E passes \in { << p >> : p \in ColorWriter(1) } :
          BuiltGraph(<< NewResource("Texture", "External", TRUE, nullptr, "Undefined") >>,
                     [h \in Handles |-> "Undefined"], passes)
    /\ \E N \in 1..MaxSlots : SyncManager(N)
    /\ NoComponents

SyncNext ==
    \/ execute
    \/ executePassBegin
    \/ executePassCallback
    \/ executeSubmit
    \/ destroyBuilder
    \/ destroyGraph
    \/ nextFrame
    \/ addWaitSemaphore
    \/ addSignalSemaphore
    \/ advanceFrame
    \/ gpuSignal

SyncSpec == SyncInit /\ [][SyncNext]_vars

\* ------------------------------------------------- the frame loop and shutdown
\* a submission made with the fence since the fence was last reset
Pending(fence) ==
    \E j \in 1..Len(submits) :
        submits[j].fence = fence /\ j > LastReset(fenceCalls, fence)

Signaled(fence) ==
    \E slot \in 1..m_maxFramesInFlight :
        InFlightFence(slot - 1) = fence /\ fenceSignaled[slot]

\* the caller's thread is not inside waitForFences
NotBlocked == waitingOn = {}

\* advanceFrame up to its waitForFences(nextFence, VK_TRUE, UINT64_MAX)
advanceFrameWait ==
    /\ CallerIdle /\ NotBlocked /\ m_maxFramesInFlight > 0
    /\ CountCalls(fenceCalls, "waitForFences", "any") < MaxAdvances
    /\ m_currentFrame' = (m_currentFrame + 1) % m_maxFramesInFlight
    /\ waitingOn' = { [call |-> "advanceFrame",
                        fence |-> InFlightFence((m_currentFrame + 1) % m_maxFramesInFlight)] }
    /\ UNCHANGED << m_maxFramesInFlight, m_frameSyncInfos, fenceSignaled, fenceCalls,
                    m_resources, m_textureLayouts, m_passes, m_compiledPasses, m_compiled,
                    m_executed, builderExecuted, pc, passIndex, m_insideGraphicsPass, cmd,
                    submits, syncInfo, m_frameTextures, m_texturePool, m_bufferPool,
                    result, destructor, commandPoolVars, resourceManagerVars,
                    sceneVars, deviceCompleted >>

\* advanceFrame from the return of waitForFences, which comes once the fence is
\* signaled: resetFences, then the bundle is cleared and its fence put back
advanceFrameReturn ==
    /\ waitingOn = { [call |-> "advanceFrame", fence |-> InFlightFence(m_currentFrame)] }
    /\ CountCalls(fenceCalls, "waitForFences", "any") < MaxAdvances
    /\ fenceSignaled[m_currentFrame + 1]
    /\ LET nextFence == InFlightFence(m_currentFrame)
           bundle == m_frameSyncInfos[m_currentFrame + 1]
           stamp == [fence |-> nextFence, waitResult |-> "eSuccess",
                     submitted |-> Len(submits)]
       IN /\ fenceCalls' = fenceCalls \o
                 << [op |-> "waitForFences"] @@ stamp, [op |-> "resetFences"] @@ stamp >>
          /\ fenceSignaled' = [fenceSignaled EXCEPT ![m_currentFrame + 1] = FALSE]
          /\ IF bundle.executionFence = "nullopt"
             THEN UNCHANGED m_frameSyncInfos
             ELSE m_frameSyncInfos' =
                    [m_frameSyncInfos EXCEPT ![m_currentFrame + 1] =
                       [RDGSyncInfoClear(bundle) EXCEPT
                           !.executionFence = bundle.executionFence]]
    /\ waitingOn' = {}
    /\ UNCHANGED << m_maxFramesInFlight, m_currentFrame,
                    m_resources, m_textureLayouts, m_passes, m_compiledPasses, m_compiled,
                    m_executed, builderExecuted, pc, passIndex, m_insideGraphicsPass, cmd,
                    submits, syncInfo, m_frameTextures, m_texturePool, m_bufferPool,
                    result, destructor, commandPoolVars, resourceManagerVars,
                    sceneVars, deviceCompleted >>

\* waitAll (called at shutdown and by ~RDGFrameSyncManager) up to its
\* waitForFences(m_inFlightFences, VK_TRUE, UINT64_MAX)
waitAllWait ==
    /\ CallerIdle /\ NotBlocked /\ m_maxFramesInFlight > 0
    /\ waitingOn' = { [call |-> "waitAll", fence |-> InFlightFence(slot - 1)] :
                          slot \in 1..m_maxFramesInFlight }
    /\ UNCHANGED << syncVars,
                    m_resources, m_textureLayouts, m_passes, m_compiledPasses, m_compiled,
                    m_executed, builderExecuted, pc, passIndex, m_insideGraphicsPass, cmd,
                    submits, syncInfo, m_frameTextures, m_texturePool, m_bufferPool,
                    result, destructor, commandPoolVars, resourceManagerVars,
                    sceneVars, deviceCompleted >>

\* waitAll returns once every fence is signaled
waitAllReturn ==
    /\ \E w \in waitingOn : w.call = "waitAll"
    /\ \A slot \in 1..m_maxFramesInFlight : fenceSignaled[slot]
    /\ waitingOn' = {}
    /\ UNCHANGED << syncVars,
                    m_resources, m_textureLayouts, m_passes, m_compiledPasses, m_compiled,
                    m_executed, builderExecuted, pc, passIndex, m_insideGraphicsPass, cmd,
                    submits, syncInfo, m_frameTextures, m_texturePool, m_bufferPool,
                    result, destructor, commandPoolVars, resourceManagerVars,
                    sceneVars, deviceCompleted >>

\* the loop's own syncInfo.clear() on the bundle getCurrentFrameSync returned
clearFrameSync ==
    /\ CallerIdle /\ NotBlocked /\ m_maxFramesInFlight > 0
    /\ m_frameSyncInfos' = [m_frameSyncInfos EXCEPT ![m_currentFrame + 1] =
                               RDGSyncInfoClear(@)]
    /\ UNCHANGED << m_maxFramesInFlight, m_currentFrame, fenceSignaled, fenceCalls >>
    /\ UNCHANGED graphVars

\* the steps of the caller's thread outside the manager
loopAddWaitSemaphore == NotBlocked /\ addWaitSemaphore
loopAddSignalSemaphore == NotBlocked /\ addSignalSemaphore
loopExecute == NotBlocked /\ execute
loopPassBegin == NotBlocked /\ executePassBegin
loopPassCallback == NotBlocked /\ executePassCallback
loopSubmit == NotBlocked /\ executeSubmit
loopDestroyBuilder == NotBlocked /\ destroyBuilder
loopDestroyGraph == NotBlocked /\ destroyGraph
loopNextFrame == NotBlocked /\ nextFrame

FrameLoopNext ==
    \/ advanceFrameWait
    \/ advanceFrameReturn
    \/ waitAllWait
    \/ waitAllReturn
    \/ clearFrameSync
    \/ loopAddWaitSemaphore
    \/ loopAddSignalSemaphore
    \/ loopExecute
    \/ loopPassBegin
    \/ loopPassCallback
    \/ loopSubmit
    \/ loopDestroyBuilder
    \/ loopDestroyGraph
    \/ loopNextFrame
    \/ gpuSignal

FrameLoopSpec == SyncInit /\ [][FrameLoopNext]_vars

\* -------------------------------------------------------- CommandPoolManager
MaxPools == 2
MaxBuffers == 1
MaxHandles == 1

\* everything of the render graph and of the sync manager
renderVars == << m_resources, m_textureLayouts, m_passes, m_compiledPasses, m_compiled,
              m_executed, builderExecuted, pc, passIndex, m_insideGraphicsPass, cmd,
              submits, syncInfo, m_frameTextures, m_texturePool, m_bufferPool, result,
              destructor, syncVars, deviceCompleted, waitingOn >>

restVars == << renderVars, sceneVars, resourceManagerVars >>

\* std::make_shared<ThreadCommandPool>(commandPool), created by thread t for manager M
ThreadCommandPool(M, t) ==
    [manager |-> M, owner |-> t, destroyed |-> FALSE, freePrimaryBuffers |-> << >>,
     allocatedCount |-> 0, inUseCount |-> 0]

\* one access of an operation that thread t runs on manager M: the map m_threadPools
\* of M (id 0), or the contents of the ThreadCommandPool with identity id
MapAccess(t, M, locked) ==
    [thread |-> t, manager |-> M, object |-> "m_threadPools", id |-> 0, locked |-> locked]

PoolAccess(t, M, id, locked) ==
    [thread |-> t, manager |-> M, object |-> "ThreadCommandPool", id |-> id,
     locked |-> locked]

\* getorcreatethreadpool: the cached pool when t_threadPool is set, whatever manager
\* cached it; else the pool of this thread in M's map, else a new pool. The result
\* is [pool, pools, map, touched].
getorcreatethreadpool(M, t) ==
    IF t_threadPool[t] # 0
    THEN [pool |-> t_threadPool[t], pools |-> threadCommandPools,
          map |-> m_threadPools[M], touched |-> {}]
    ELSE IF m_threadPools[M][t] # 0
    THEN [pool |-> m_threadPools[M][t], pools |-> threadCommandPools,
          map |-> m_threadPools[M], touched |-> {MapAccess(t, M, TRUE)}]
    ELSE [pool |-> Len(threadCommandPools) + 1,
          pools |-> Append(threadCommandPools, ThreadCommandPool(M, t)),
          map |-> [m_threadPools[M] EXCEPT ![t] = Len(threadCommandPools) + 1],
          touched |-> {MapAccess(t, M, TRUE)}]

\* allocate(ePrimary) by thread t on manager M: inUseCount++, then allocateinternal
\* takes the front of the free queue and resets it, or allocates a new buffer
allocate(t, M) ==
    /\ Cardinality(commandBufferHandles) < MaxHandles
    /\ \E g \in {getorcreatethreadpool(M, t)} :
         /\ g.pool <= MaxPools
         /\ LET tp == g.pools[g.pool]
                reused == tp.freePrimaryBuffers # << >>
                buffer == IF reused THEN Head(tp.freePrimaryBuffers)
                          ELSE << g.pool, tp.allocatedCount + 1 >>
            IN /\ reused \/ tp.allocatedCount < MaxBuffers
               /\ threadCommandPools' =
                     [g.pools EXCEPT ![g.pool] =
                        [tp EXCEPT !.inUseCount = @ + 1,
                                   !.freePrimaryBuffers = IF reused THEN Tail(@) ELSE @,
                                   !.allocatedCount = IF reused THEN @ ELSE @ + 1]]
               /\ commandBufferHandles' = commandBufferHandles \cup
                     {[buffer |-> buffer, pool |-> M, thread |-> t]}
               /\ accesses' = g.touched \cup {PoolAccess(t, M, g.pool, FALSE)}
                     \cup (IF reused
                           THEN {[thread |-> t, manager |-> M, object |-> "reset",
                                  id |-> buffer, locked |-> FALSE]}
                           ELSE {})
         /\ m_threadPools' = [m_threadPools EXCEPT ![M] = g.map]
         /\ t_threadPool' = [t_threadPool EXCEPT ![t] = g.pool]
    /\ UNCHANGED pendingBuffers

\* ~CommandBufferHandle on the thread that allocated it: CommandBufferDeleter calls
\* pool->recycle, which pushes the buffer on the queue of t_threadPool
recycle(h) ==
    /\ h \in commandBufferHandles
    /\ commandBufferHandles' = commandBufferHandles \ {h}
    /\ IF t_threadPool[h.thread] = 0
       THEN UNCHANGED threadCommandPools /\ accesses' = {}
       ELSE /\ threadCommandPools' =
                 [threadCommandPools EXCEPT ![t_threadPool[h.thread]] =
                    [@ EXCEPT !.inUseCount = @ - 1,
                              !.freePrimaryBuffers = Append(@, h.buffer)]]
            /\ accesses' = {PoolAccess(h.thread, h.pool, t_threadPool[h.thread], FALSE)}
    /\ UNCHANGED << m_threadPools, t_threadPool, pendingBuffers >>

\* resetCommandPool(threadId) called by thread t
resetCommandPool(t, M, threadId) ==
    /\ LET id == m_threadPools[M][threadId]
       IN IF id = 0
          THEN accesses' = {MapAccess(t, M, TRUE)} /\ UNCHANGED threadCommandPools
          ELSE /\ accesses' = {MapAccess(t, M, TRUE), PoolAccess(t, M, id, TRUE)}
               /\ IF threadCommandPools[id].inUseCount # 0
                  THEN \* throw std::runtime_error
                       UNCHANGED threadCommandPools
                  ELSE threadCommandPools' =
                         [threadCommandPools EXCEPT ![id] =
                            [@ EXCEPT !.freePrimaryBuffers = << >>,
                                      !.allocatedCount = 0]]
    /\ UNCHANGED << m_threadPools, t_threadPool, commandBufferHandles, pendingBuffers >>

\* the pools in the map of manager M
PoolsOf(M) == { m_threadPools[M][t] : t \in Threads } \ {0}

\* getStats called by thread t
getStats(t, M) ==
    /\ accesses' = {MapAccess(t, M, TRUE)} \cup { PoolAccess(t, M, id, TRUE) : id \in PoolsOf(M) }
    /\ UNCHANGED << m_threadPools, t_threadPool, threadCommandPools,
                    commandBufferHandles, pendingBuffers >>

\* cleanup called by thread t: every pool of the map is destroyed, the map cleared,
\* and the calling thread's cache alone reset
cleanup(t, M) ==
    /\ PoolsOf(M) # {}
    /\ accesses' = {MapAccess(t, M, TRUE)} \cup { PoolAccess(t, M, id, TRUE) : id \in PoolsOf(M) }
    /\ threadCommandPools' =
          [id \in 1..Len(threadCommandPools) |->
              IF id \in PoolsOf(M)
              THEN [threadCommandPools[id] EXCEPT !.destroyed = TRUE]
              ELSE threadCommandPools[id]]
    /\ m_threadPools' = [m_threadPools EXCEPT ![M] = [x \in Threads |-> 0]]
    /\ t_threadPool' = [t_threadPool EXCEPT ![t] = 0]
    /\ UNCHANGED << commandBufferHandles, pendingBuffers >>

\* queue.submit of the buffer of a live handle; the device completes it later
submitBuffer(h) ==
    /\ h \in commandBufferHandles
    /\ h.buffer \notin pendingBuffers
    /\ pendingBuffers' = pendingBuffers \cup {h.buffer}
    /\ accesses' = {}
    /\ UNCHANGED << m_threadPools, t_threadPool, threadCommandPools, commandBufferHandles >>

gpuComplete ==
    /\ \E b \in pendingBuffers : pendingBuffers' = pendingBuffers \ {b}
    /\ accesses' = {}
    /\ UNCHANGED << m_threadPools, t_threadPool, threadCommandPools, commandBufferHandles >>

CommandPoolInit ==
    /\ BuiltGraph(<< >>, [h \in Handles |-> "Undefined"], << >>)
    /\ NoSyncManager
    /\ NoComponents

allocateBuffer == \E t \in Threads, M \in Managers : allocate(t, M) /\ UNCHANGED restVars
destroyHandle == \E h \in commandBufferHandles : recycle(h) /\ UNCHANGED restVars
resetPool ==
    \E t \in Threads, M \in Managers, threadId \in Threads :
        resetCommandPool(t, M, threadId) /\ UNCHANGED restVars
readStats == \E t \in Threads, M \in Managers : getStats(t, M) /\ UNCHANGED restVars
cleanupManager == \E t \in Threads, M \in Managers : cleanup(t, M) /\ UNCHANGED restVars
queueSubmit == \E h \in commandBufferHandles : submitBuffer(h) /\ UNCHANGED restVars
deviceCompletes == gpuComplete /\ UNCHANGED restVars

CommandPoolNext ==
    \/ allocateBuffer
    \/ destroyHandle
    \/ resetPool
    \/ readStats
    \/ cleanupManager
    \/ queueSubmit
    \/ deviceCompletes

CommandPoolSpec == CommandPoolInit /\ [][CommandPoolNext]_vars

\* ----------------------------------------------------------------- SceneNode
MaxCoord == 1
MaxAngle == 0
MaxScale == 1
Positions == 0..MaxCoord
Rotations == 0..MaxAngle
Scales == 1..MaxScale
Transforms == [position : Positions, rotation : Rotations, scale : Scales]

\* Transform::getLocalMatrix: translation * rotation * scale of the three members
getLocalMatrix(transform) ==
    << [t |-> transform.position, r |-> transform.rotation, s |-> transform.scale] >>

\* glm::mat4 operator*
Product(a, b) == a \o b

ChildrenOf(children, n) == { children[n][i] : i \in 1..Len(children[n]) }

\* the nodes invalidateworldmatrix visits from n: n and, through m_children, all below
RECURSIVE Subtree(_, _)
Subtree(children, n) ==
    {n} \cup UNION { Subtree(children, c) : c \in ChildrenOf(children, n) }

\* invalidateworldmatrix that marks the node alone
invalidateworldmatrix_SelfOnly(dirty, children, n) == [dirty EXCEPT ![n] = TRUE]

\* SceneNode::invalidateworldmatrix
invalidateworldmatrix(dirty, children, n) ==
    [k \in Nodes |-> dirty[k] \/ k \in Subtree(children, n)]

\* the nodes above n along m_parent
RECURSIVE AncestorsOf(_, _)
AncestorsOf(parent, n) ==
    IF parent[n] = 0 THEN {} ELSE {parent[n]} \cup AncestorsOf(parent, parent[n])

\* SceneNode::getWorldMatrix on the caches c = [dirty, cached]: the caches it leaves
\* and the matrix it returns
RECURSIVE getWorldMatrix(_, _)
getWorldMatrix(c, n) ==
    IF ~c.dirty[n]
    THEN [caches |-> c, value |-> c.cached[n]]
    ELSE LET localMatrix == getLocalMatrix(m_transform[n])
             up == IF m_parent[n] # 0
                   THEN getWorldMatrix(c, m_parent[n])
                   ELSE [caches |-> c, value |-> Identity]
             world == IF m_parent[n] # 0 THEN Product(up.value, localMatrix)
                      ELSE localMatrix
         IN [caches |-> [dirty |-> [up.caches.dirty EXCEPT ![n] = FALSE],
                         cached |-> [up.caches.cached EXCEPT ![n] = world]],
             value |-> world]

SceneAlive == sceneFault = "none"

\* the tail of every transform modifier: m_transform = ...; invalidateworldmatrix()
modifyTransform(n, transform) ==
    /\ m_transform' = [m_transform EXCEPT ![n] = transform]
    /\ m_worldMatrixDirty' = invalidateworldmatrix(m_worldMatrixDirty, m_children, n)
    /\ worldMatrixReturned' = NothingReturned
    /\ UNCHANGED << m_parent, m_children, m_cachedWorldMatrix, sceneFault, renderVars,
                    commandPoolVars, resourceManagerVars >>

setTransform ==
    /\ SceneAlive
    /\ \E n \in Nodes, transform \in Transforms : modifyTransform(n, transform)

setPosition ==
    /\ SceneAlive
    /\ \E n \in Nodes, position \in Positions :
         modifyTransform(n, [m_transform[n] EXCEPT !.position = position])

setRotation ==
    /\ SceneAlive
    /\ \E n \in Nodes, rotation \in Rotations :
         modifyTransform(n, [m_transform[n] EXCEPT !.rotation = rotation])

setScale ==
    /\ SceneAlive
    /\ \E n \in Nodes, scale \in Scales :
         modifyTransform(n, [m_transform[n] EXCEPT !.scale = scale])

\* position += delta, for the deltas that keep the position in range
translate ==
    /\ SceneAlive
    /\ \E n \in Nodes, delta \in {-1, 1} :
         /\ m_transform[n].position + delta \in Positions
         /\ modifyTransform(n, [m_transform[n] EXCEPT !.position = @ + delta])

Erase(seq, x) == SelectSeq(seq, LAMBDA y : y # x)

\* SceneNode::removeChild on the members given: the members it leaves
removeChildOf(s, node, child) ==
    IF child \notin ChildrenOf(s.children, node) THEN s
    ELSE LET children == [s.children EXCEPT ![node] = Erase(@, child)]
         IN [parent |-> [s.parent EXCEPT ![child] = 0],
             children |-> children,
             dirty |-> invalidateworldmatrix(
                           invalidateworldmatrix(s.dirty, s.children, child),
                           children, child)]

SceneMembers == [parent |-> m_parent, children |-> m_children, dirty |-> m_worldMatrixDirty]

removeChild ==
    /\ SceneAlive
    /\ \E node \in Nodes, child \in Nodes :
         LET s == removeChildOf(SceneMembers, node, child)
         IN /\ m_parent' = s.parent
            /\ m_children' = s.children
            /\ m_worldMatrixDirty' = s.dirty
    /\ worldMatrixReturned' = NothingReturned
    /\ UNCHANGED << m_transform, m_cachedWorldMatrix, sceneFault, renderVars,
                    commandPoolVars, resourceManagerVars >>

\* child is the node itself or one of the nodes above it: once it is pushed and its
\* parent set, invalidateworldmatrix walks m_children round the loop without end
ClosesLoop(node, child) == child = node \/ child \in AncestorsOf(m_parent, node)

\* SceneNode::addChild
addChild ==
    /\ SceneAlive
    /\ \E node \in Nodes, child \in Nodes :
         IF child \in ChildrenOf(m_children, node)
         THEN UNCHANGED << m_parent, m_children, m_worldMatrixDirty, sceneFault >>
         ELSE LET old == IF m_parent[child] # 0
                         THEN removeChildOf(SceneMembers, m_parent[child], child)
                         ELSE SceneMembers
                  children == [old.children EXCEPT ![node] = Append(@, child)]
              IN /\ m_children' = children
                 /\ m_parent' = [old.parent EXCEPT ![child] = node]
                 /\ IF ClosesLoop(node, child)
                    THEN /\ m_worldMatrixDirty' =
                                invalidateworldmatrix(old.dirty, old.children, child)
                         /\ sceneFault' = "stack_overflow"
                    ELSE /\ m_worldMatrixDirty' =
                                invalidateworldmatrix(
                                    invalidateworldmatrix(old.dirty, children, child),
                                    children, child)
                         /\ UNCHANGED sceneFault
    /\ worldMatrixReturned' = NothingReturned
    /\ UNCHANGED << m_transform, m_cachedWorldMatrix, renderVars, commandPoolVars,
                    resourceManagerVars >>

\* a call of getWorldMatrix on a node
queryWorldMatrix ==
    /\ SceneAlive
    /\ \E n \in Nodes :
         LET r == getWorldMatrix([dirty |-> m_worldMatrixDirty,
                                  cached |-> m_cachedWorldMatrix], n)
         IN /\ m_worldMatrixDirty' = r.caches.dirty
            /\ m_cachedWorldMatrix' = r.caches.cached
            /\ worldMatrixReturned' = [node |-> n, value |-> r.value]
    /\ UNCHANGED << m_transform, m_parent, m_children, sceneFault, renderVars,
                    commandPoolVars, resourceManagerVars >>

SceneInit ==
    /\ BuiltGraph(<< >>, [h \in Handles |-> "Undefined"], << >>)
    /\ NoSyncManager
    /\ NoComponents

SceneNext ==
    \/ setTransform
    \/ setPosition
    \/ setRotation
    \/ setScale
    \/ translate
    \/ addChild
    \/ removeChild
    \/ queryWorldMatrix

SceneSpec == SceneInit /\ [][SceneNext]_vars

\* ------------------------------------------------------------ ResourceManager
MaxPaths == 1
Paths == 1..MaxPaths

\* the cache key loadTexture builds, and the name loadanduploadtexture registers under
TextureKey(path, srgb) == << "path", path, IF srgb THEN "_srgb" ELSE "_linear" >>
TextureName(path) == << "path", path, "" >>
MaterialKey(name) == << "material", name >>

\* a function of the manager a thread is inside: at is "lock" before its lock_guard is
\* constructed, "run" in its body, "blocked" when the lock can never be had; held
\* tells whether a lock_guard of this call owns m_mtx
Frame(fn, at, path, flag) == [fn |-> fn, at |-> at, path |-> path, flag |-> flag, held |-> FALSE]

Top(t) == callStack[t][Len(callStack[t])]
Inside(t) == callStack[t] # << >>

Push(t, frame) == callStack' = [callStack EXCEPT ![t] = Append(@, frame)]
SetTop(t, frame) == callStack' = [callStack EXCEPT ![t][Len(callStack[t])] = frame]

\* the call returns: its lock_guard, if it has one, unlocks
Return(t) ==
    /\ callStack' = [callStack EXCEPT ![t] = SubSeq(@, 1, Len(@) - 1)]
    /\ m_mtx' = IF Top(t).held THEN 0 ELSE m_mtx

\* an exception leaves every call of the thread: each lock_guard on the way unlocks
Unwind(t) ==
    /\ callStack' = [callStack EXCEPT ![t] = << >>]
    /\ m_mtx' = IF \E i \in 1..Len(callStack[t]) : callStack[t][i].held THEN 0 ELSE m_mtx

\* a thread calls one of the public functions; flag is srgb for loadTexture and
\* "some texture path is not empty" for the materials
callManager ==
    /\ \E t \in Threads, path \in Paths, flag \in BOOLEAN,
          fn \in {"loadTexture", "loadMaterial", "registerMaterial", "registerTexture"} :
          /\ ~Inside(t)
          /\ Push(t, Frame(fn, "lock", path, flag))
    /\ UNCHANGED << m_mtx, m_textureCache, m_materialCache >>
    /\ UNCHANGED << renderVars, commandPoolVars, sceneVars >>

\* std::lock_guard<std::mutex> lock(m_mtx) at the head of a public function. Locking
\* a std::mutex the thread already owns is undefined: the call blocks for ever or
\* throws std::system_error (resource_deadlock_would_occur)
lockGuard ==
    /\ \E t \in Threads :
          /\ Inside(t) /\ Top(t).at = "lock"
          /\ \/ /\ m_mtx = 0
                /\ m_mtx' = t
                /\ SetTop(t, [Top(t) EXCEPT !.at = "run", !.held = TRUE])
             \/ /\ m_mtx = t
                /\ \/ SetTop(t, [Top(t) EXCEPT !.at = "blocked"]) /\ UNCHANGED m_mtx
                   \/ Unwind(t)
    /\ UNCHANGED << m_textureCache, m_materialCache >>
    /\ UNCHANGED << renderVars, commandPoolVars, sceneVars >>

\* the body of the function on top of the thread's stack, up to its next call or
\* its return; a frame at "back" has had its inner call return
runBody ==
    /\ \E t \in Threads :
          /\ Inside(t) /\ Top(t).at \in {"run", "back"}
          /\ LET f == Top(t)
             IN CASE f.fn = "loadTexture" ->
                       IF f.at = "run" /\ TextureKey(f.path, f.flag) \in m_textureCache
                       THEN Return(t) /\ UNCHANGED << m_textureCache, m_materialCache >>
                       ELSE IF f.at = "run"
                       THEN /\ callStack' = [callStack EXCEPT ![t] =
                                  Append([@ EXCEPT ![Len(@)].at = "back"],
                                         Frame("loadanduploadtexture", "run", f.path, f.flag))]
                            /\ UNCHANGED << m_mtx, m_textureCache, m_materialCache >>
                       ELSE /\ m_textureCache' = m_textureCache \cup {TextureKey(f.path, f.flag)}
                            /\ Return(t) /\ UNCHANGED m_materialCache
                  [] f.fn \in {"loadMaterial", "registerMaterial"} ->
                       IF f.at = "run" /\ MaterialKey(f.path) \in m_materialCache
                       THEN Return(t) /\ UNCHANGED << m_textureCache, m_materialCache >>
                       ELSE IF f.at = "run"
                       THEN /\ callStack' = [callStack EXCEPT ![t] =
                                  Append([@ EXCEPT ![Len(@)].at = "back"],
                                         Frame("buildmaterial", "run", f.path, f.flag))]
                            /\ UNCHANGED << m_mtx, m_textureCache, m_materialCache >>
                       ELSE /\ m_materialCache' = m_materialCache \cup {MaterialKey(f.path)}
                            /\ Return(t) /\ UNCHANGED m_textureCache
                  [] f.fn = "buildmaterial" ->
                       IF f.at = "run" /\ f.flag
                       THEN /\ callStack' = [callStack EXCEPT ![t] =
                                  Append([@ EXCEPT ![Len(@)].at = "back"],
                                         Frame("loadanduploadtexture", "run", f.path, FALSE))]
                            /\ UNCHANGED << m_mtx, m_textureCache, m_materialCache >>
                       ELSE Return(t) /\ UNCHANGED << m_textureCache, m_materialCache >>
                  [] f.fn = "loadanduploadtexture" ->
                       IF f.at = "run"
                       THEN \E isValid \in BOOLEAN :
                              IF isValid
                              THEN /\ callStack' = [callStack EXCEPT ![t] =
                                         Append([@ EXCEPT ![Len(@)].at = "back"],
                                                Frame("registerTexture", "lock", f.path, f.flag))]
                                   /\ UNCHANGED << m_mtx, m_textureCache, m_materialCache >>
                              ELSE \* "Failed to load texture"
                                   Unwind(t) /\ UNCHANGED << m_textureCache, m_materialCache >>
                       ELSE Return(t) /\ UNCHANGED << m_textureCache, m_materialCache >>
                  [] f.fn = "registerTexture" ->
                       /\ m_textureCache' = m_textureCache \cup {TextureName(f.path)}
                       /\ Return(t) /\ UNCHANGED m_materialCache
    /\ UNCHANGED << renderVars, commandPoolVars, sceneVars >>

ResourceManagerInit ==
    /\ BuiltGraph(<< >>, [h \in Handles |-> "Undefined"], << >>)
    /\ NoSyncManager
    /\ NoComponents

ResourceManagerNext ==
    \/ callManager
    \/ lockGuard
    \/ runBody

ResourceManagerSpec == ResourceManagerInit /\ [][ResourceManagerNext]_vars

\* ------------------------------------------------------------- properties
\* The accesses a pass declares on a resource, in the order computeBarriers walks
\* them: texture reads, color attachments, the depth attachment, storage texture
\* writes, buffer reads, buffer writes.
ReadAccessesOn(p, h) ==
    LET sel == SelectSeq(p.textureReads, LAMBDA d : d.handle = h)
    IN [i \in 1..Len(sel) |-> [write |-> FALSE, stages |-> sel[i].stages,
                               access |-> sel[i].access, layout |-> sel[i].layout]]

ColorAccessesOn(p, h) ==
    LET sel == SelectSeq(p.colorAttachments, LAMBDA d : d.handle = h)
    IN [i \in 1..Len(sel) |->
           [write |-> TRUE, stages |-> ColorAttachmentOutput,
            access |-> {"ColorAttachmentWrite"}
                       \cup (IF sel[i].loadOp = "Load" THEN {"ColorAttachmentRead"} ELSE {}),
            layout |-> "ColorAttachmentOptimal"]]

DepthAccessesOn(p, h) ==
    IF p.depthAttachment.handle = h /\ h # kInvalidHandle
    THEN << [write |-> TRUE, stages |-> FragmentTests,
             access |-> {"DepthStencilAttachmentWrite"}
                        \cup (IF p.depthAttachment.loadOp = "Load"
                              THEN {"DepthStencilAttachmentRead"} ELSE {}),
             layout |-> "DepthStencilAttachmentOptimal"] >>
    ELSE << >>

StorageAccessesOn(p, h) ==
    LET sel == SelectSeq(p.textureWrites, LAMBDA d : d.handle = h)
    IN [i \in 1..Len(sel) |-> [write |-> TRUE, stages |-> sel[i].stages,
                               access |-> sel[i].access, layout |-> "General"]]

BufferAccessesOn(decls, h, isWrite) ==
    LET sel == SelectSeq(decls, LAMBDA d : d.handle = h)
    IN [i \in 1..Len(sel) |-> [write |-> isWrite, stages |-> sel[i].stages,
                               access |-> sel[i].access, layout |-> "Undefined"]]

AccessesOn(p, h) ==
    ReadAccessesOn(p, h) \o ColorAccessesOn(p, h) \o DepthAccessesOn(p, h)
    \o StorageAccessesOn(p, h) \o BufferAccessesOn(p.bufferReads, h, FALSE)
    \o BufferAccessesOn(p.bufferWrites, h, TRUE)

WritesResource(p, h) == \E k \in 1..Len(AccessesOn(p, h)) : AccessesOn(p, h)[k].write

LastAccessOn(p, h) == AccessesOn(p, h)[Len(AccessesOn(p, h))]

PassPositions == 1..Len(m_passes)

ActivePasses == { i \in PassPositions : m_compiledPasses[i].active }

\* the barriers of the pass at position i that name resource h
BarriersOn(i, h) == SelectSeq(m_compiledPasses[i].barriers, LAMBDA b : b.handle = h)

\* the active passes before position i that declare an access on h
EarlierTouching(i, h) ==
    { j \in ActivePasses : j < i /\ AccessesOn(m_passes[j], h) # << >> }

Latest(S) == CHOOSE j \in S : \A k \in S : k <= j

\* C1 as stated: in a compiled graph, for every pair of active passes A before B,
\* whatever is declared between them, if A writes R and B reads or writes R, then
\* B's barrier list holds a barrier on R whose source stages include the stages of
\* a write of A on R.
C1_EveryLaterPassWaitsOnWriter ==
    m_compiled =>
        \A a \in ActivePasses, b \in ActivePasses, h \in 1..Len(m_resources) :
            (a < b /\ WritesResource(m_passes[a], h) /\ AccessesOn(m_passes[b], h) # << >>)
            => \E k \in 1..Len(BarriersOn(b, h)) :
                  \E w \in 1..Len(AccessesOn(m_passes[a], h)) :
                      /\ AccessesOn(m_passes[a], h)[w].write
                      /\ AccessesOn(m_passes[a], h)[w].stages
                            \subseteq BarriersOn(b, h)[k].srcStages

\* B is the first active pass after A that declares an access on h
NextToucher(a, b, h) ==
    /\ a \in ActivePasses /\ b \in ActivePasses /\ a < b
    /\ WritesResource(m_passes[a], h)
    /\ AccessesOn(m_passes[b], h) # << >>
    /\ \A c \in ActivePasses : (a < c /\ c < b) => AccessesOn(m_passes[c], h) = << >>

\* C1, amended: in a compiled graph, if active pass A writes R, the last write A
\* declared on R has a non-empty access mask, and B is the next active pass that
\* reads or writes R, then B's barrier list holds a barrier on R and the first of
\* them has as source stages and source access the stages and access of the last
\* write A declared on R.
C1_NextPassWaitsOnLastWrite ==
    m_compiled =>
        \A a \in PassPositions, b \in PassPositions, h \in 1..Len(m_resources) :
            (NextToucher(a, b, h) /\ LastAccessOn(m_passes[a], h).access # AccessNone)
            => /\ BarriersOn(b, h) # << >>
               /\ LastAccessOn(m_passes[a], h).write
               /\ BarriersOn(b, h)[1].srcStages = LastAccessOn(m_passes[a], h).stages
               /\ BarriersOn(b, h)[1].srcAccess = LastAccessOn(m_passes[a], h).access

\* a writer, then the next pass touching the same resource, with a third pass behind
C1_Witness ==
    /\ m_compiled
    /\ \E a \in PassPositions, b \in PassPositions, h \in 1..Len(m_resources) :
          /\ NextToucher(a, b, h)
          /\ LastAccessOn(m_passes[a], h).access # AccessNone
          /\ BarriersOn(b, h) # << >>
          /\ BarriersOn(b, h)[1].srcStages = ColorAttachmentOutput
          /\ \E c \in ActivePasses : b < c /\ AccessesOn(m_passes[c], h) # << >>

\* the layouts the images are in before execute: m_currentLayout of each resource
ImportLayoutOf == [h \in 1..Len(m_resources) |-> m_resources[h].currentLayout]

\* the layouts the images are in once the commands have run
RECURSIVE LayoutsAfter(_, _)
LayoutsAfter(layouts, commands) ==
    IF commands = << >> THEN layouts
    ELSE LET c == Head(commands)
             transition(l, b) ==
                 IF b.type = "Image" THEN [l EXCEPT ![b.handle] = b.newLayout] ELSE l
         IN LayoutsAfter(IF c.op = "pipelineBarrier" THEN Fold(transition, layouts, c.barriers)
                         ELSE layouts,
                         Tail(commands))

\* C2: for every active graphics pass, once its barriers are recorded and its
\* rendering scope is opened, the recorded barriers have put each of its color
\* attachments in ColorAttachmentOptimal and its depth attachment in
\* DepthStencilAttachmentOptimal.
C2_AttachmentsInAttachmentLayout ==
    \A k \in 1..Len(cmd) :
        cmd[k].op = "beginRendering" =>
            LET p == m_passes[cmd[k].pass + 1]
                at == LayoutsAfter(ImportLayoutOf, SubSeq(cmd, 1, k - 1))
            IN /\ \A h \in HandlesOf(p.colorAttachments) : at[h] = "ColorAttachmentOptimal"
               /\ p.depthAttachment.handle # kInvalidHandle
                  => at[p.depthAttachment.handle] = "DepthStencilAttachmentOptimal"

WritesOf(p) ==
    HandlesOf(p.colorAttachments) \cup HandlesOf(p.textureWrites) \cup HandlesOf(p.bufferWrites)
    \cup (IF p.depthAttachment.handle # kInvalidHandle THEN {p.depthAttachment.handle} ELSE {})

ReadsOf(p) == HandlesOf(p.textureReads) \cup HandlesOf(p.bufferReads)

\* root passes: those writing an external (or swapchain) resource
RootPasses ==
    { i \in PassPositions :
        \E h \in WritesOf(m_passes[i]) : h \in 1..Len(m_resources) /\ isExternal(m_resources[h]) }

\* the least set containing S and closed under: A in the set, A reads R, an earlier
\* pass writes R => that pass is in the set
RECURSIVE BackwardClosure(_)
BackwardClosure(S) ==
    LET T == S \cup { a \in PassPositions :
                        \E b \in S : a < b /\ WritesOf(m_passes[a]) \cap ReadsOf(m_passes[b]) # {} }
    IN IF T = S THEN S ELSE BackwardClosure(T)

C5_SubmittedOnceWithFence ==
    /\ Len(submits) <= 1
    /\ result = "ok" =>
          /\ Len(submits) = 1
          /\ submits[1].commands[1].op = "begin"
          /\ submits[1].commands[Len(submits[1].commands)].op = "end"
          /\ syncInfo = "withFence" => submits[1].fence = "executionFence"
          /\ syncInfo = "null" => submits[1].fence = "none"

C5_Witness ==
    /\ result = "ok"
    /\ syncInfo = "withFence"
    /\ submits[1].fence = "executionFence"
    /\ \E k \in 1..Len(submits[1].commands) : submits[1].commands[k].op = "callback"

\* C6: when the callback of an active pass throws, execute still runs the remaining
\* callbacks, ends and submits the command buffer and returns without error: no
\* exception of a callback leaves execute.
C6_CallbackFailureIsolated == result # "callback_exception"

\* the layout the texture is in when the pass at position i begins: the layout of
\* the last access the most recent earlier active pass declared on it, the import
\* layout when there is none
LayoutLeftBefore(i, h) ==
    IF EarlierTouching(i, h) = {} THEN m_resources[h].currentLayout
    ELSE LastAccessOn(m_passes[Latest(EarlierTouching(i, h))], h).layout

\* C7: for every active pass P and every texture R that P reads, the old layout of
\* the barrier P's list opens R with is the layout the most recent preceding active
\* pass touching R left it in, or R's import layout (Undefined for a transient or a
\* swapchain image) when no earlier pass touched it.
C7_OldLayoutIsLayoutLeft ==
    m_compiled =>
        \A i \in ActivePasses : \A h \in HandlesOf(m_passes[i].textureReads) :
            BarriersOn(i, h) # << >> => BarriersOn(i, h)[1].oldLayout = LayoutLeftBefore(i, h)

\* a read whose barrier starts from the layout an earlier pass left, not from the
\* import layout
C7_Witness ==
    /\ m_compiled
    /\ \E i \in ActivePasses : \E h \in HandlesOf(m_passes[i].textureReads) :
          /\ BarriersOn(i, h) # << >>
          /\ EarlierTouching(i, h) # {}
          /\ BarriersOn(i, h)[1].oldLayout # m_resources[h].currentLayout

\* the accesses declared on h by the active passes at positions 1..n, in order
RECURSIVE AccessesUpTo(_, _)
AccessesUpTo(n, h) ==
    IF n = 0 THEN << >>
    ELSE AccessesUpTo(n - 1, h)
         \o (IF n \in ActivePasses THEN AccessesOn(m_passes[n], h) ELSE << >>)

\* the barrier C8 asks for at the k-th texture read of the pass at position i
ExpectedReadBarrier(i, k) ==
    LET d == m_passes[i].textureReads[k]
        prior == AccessesUpTo(i - 1, d.handle)
                 \o ReadAccessesOn([textureReads |-> SubSeq(m_passes[i].textureReads, 1, k - 1)],
                                   d.handle)
        none == prior = << >>
        last == prior[Len(prior)]
        Lo == IF none THEN m_resources[d.handle].currentLayout ELSE last.layout
    IN IF (~none /\ last.write) \/ Lo # d.layout
       THEN << [type |-> "Image", handle |-> d.handle,
                srcStages |-> IF none THEN TopOfPipe ELSE last.stages,
                dstStages |-> d.stages,
                srcAccess |-> IF none THEN AccessNone ELSE last.access,
                dstAccess |-> d.access,
                oldLayout |-> Lo, newLayout |-> d.layout] >>
       ELSE << >>

RECURSIVE ExpectedReadBarriers(_, _)
ExpectedReadBarriers(i, k) ==
    IF k = 0 THEN << >> ELSE ExpectedReadBarriers(i, k - 1) \o ExpectedReadBarrier(i, k)

\* C8: for each texture read in an active pass an image barrier is emitted exactly
\* when the last recorded access was a write or the layout differs, and it carries
\* the stages and access of the last recorded access as its source (TopOfPipe and the
\* empty mask only when there was none), the read's stages and access as its
\* destination, the current layout as old and the read's layout as new.
C8_ReadBarriersCarryLastAccess ==
    m_compiled =>
        \A i \in ActivePasses :
            LET expected == ExpectedReadBarriers(i, Len(m_passes[i].textureReads))
                barriers == m_compiledPasses[i].barriers
            IN /\ Len(expected) <= Len(barriers)
               /\ SubSeq(barriers, 1, Len(expected)) = expected

\* the transitions old -> new of image h among the commands
RECURSIVE Transitions(_, _, _, _)
Transitions(commands, h, old, new) ==
    IF commands = << >> THEN 0
    ELSE (IF Head(commands).op = "pipelineBarrier"
          THEN Len(SelectSeq(Head(commands).barriers,
                             LAMBDA b : b.type = "Image" /\ b.handle = h
                                        /\ b.oldLayout = old /\ b.newLayout = new))
          ELSE 0)
         + Transitions(Tail(commands), h, old, new)

\* a graph of one pass whose one declaration is a swapchain image as color attachment
SingleSwapChainPass(h) ==
    /\ Len(m_passes) = 1
    /\ DeclCount(m_passes[1]) = 1
    /\ HandlesOf(m_passes[1].colorAttachments) = {h}
    /\ m_resources[h].swapChain

\* C9: for a graph of a single pass writing an imported swapchain image as its color
\* attachment, the submitted work holds exactly one Undefined -> ColorAttachmentOptimal
\* transition of the image and exactly one ColorAttachmentOptimal -> PresentSrcKHR
\* transition of it.
C9_SwapChainTransitions ==
    \A h \in 1..Len(m_resources) :
        (SingleSwapChainPass(h) /\ result = "ok")
        => /\ Transitions(submits[1].commands, h, "Undefined", "ColorAttachmentOptimal") = 1
           /\ Transitions(submits[1].commands, h, "ColorAttachmentOptimal", "PresentSrcKHR") = 1

\* pass A writes the transient depth texture D as its depth attachment and nothing
\* else; pass B, the next pass, reads D sampled and writes a swapchain image
DepthThenSample(D) ==
    /\ Len(m_passes) = 2
    /\ IsTexture(m_resources, D) /\ isTransient(m_resources[D])
    /\ m_passes[1].depthAttachment.handle = D
    /\ DeclCount(m_passes[1]) = 1
    /\ Len(m_passes[2].textureReads) = 1
    /\ m_passes[2].textureReads[1].handle = D
    /\ m_passes[2].textureReads[1].stages = {"FragmentShader"}
    /\ m_passes[2].textureReads[1].access = {"ShaderRead"}
    /\ Len(m_passes[2].colorAttachments) = 1
    /\ m_resources[m_passes[2].colorAttachments[1].handle].swapChain
    /\ DeclCount(m_passes[2]) = 2

\* C10: when pass A writes a transient depth texture D as its depth-stencil attachment
\* and a later pass B reads D sampled (ShaderRead at FragmentShader) while writing
\* the swapchain image, B's barrier list holds an image barrier on D from
\* DepthStencilAttachmentOptimal to ShaderReadOnlyOptimal whose source stages include
\* LateFragmentTests (the mask is EarlyFragmentTests | LateFragmentTests), with
\* source access including DepthStencilAttachmentWrite (joined by
\* DepthStencilAttachmentRead when A loads the attachment), destination stage
\* FragmentShader and destination access ShaderRead.
C10_DepthToSampledBarrier ==
    \A D \in 1..Len(m_resources) :
        (m_compiled /\ DepthThenSample(D))
        => \E k \in 1..Len(m_compiledPasses[2].barriers) :
              LET b == m_compiledPasses[2].barriers[k]
              IN /\ b.type = "Image" /\ b.handle = D
                 /\ b.oldLayout = "DepthStencilAttachmentOptimal"
                 /\ b.newLayout = "ShaderReadOnlyOptimal"
                 /\ "LateFragmentTests" \in b.srcStages
                 /\ b.srcStages = FragmentTests
                 /\ "DepthStencilAttachmentWrite" \in b.srcAccess
                 /\ b.srcAccess \subseteq {"DepthStencilAttachmentWrite",
                                            "DepthStencilAttachmentRead"}
                 /\ b.dstStages = {"FragmentShader"}
                 /\ b.dstAccess = {"ShaderRead"}

C10_Witness ==
    /\ m_compiled
    /\ \E D \in 1..Len(m_resources) : DepthThenSample(D)
    /\ m_compiledPasses[1].active /\ m_compiledPasses[2].active

\* the transients no active pass declares an access on
UntouchedTransients ==
    { h \in 1..Len(m_resources) :
        /\ isTransient(m_resources[h])
        /\ \A i \in ActivePasses : AccessesOn(m_passes[i], h) = << >> }

\* C11: a transient resource that no active pass touches (declared but unreferenced,
\* or referenced only by culled passes) has isUsed = false after compile, and at no
\* point of execute is a physical backing created for it or bound to it.
C11_UntouchedTransientNeverBacked ==
    m_compiled =>
        \A h \in UntouchedTransients :
            /\ ~m_resources[h].lifetime.isUsed
            /\ m_resources[h].physical = nullptr
            /\ FrameBacking(h) \notin m_frameTextures

\* a finished execute of a graph with a transient that only a culled pass references
C11_Witness ==
    /\ result = "ok"
    /\ \E h \in UntouchedTransients :
          \E i \in PassPositions :
             ~m_compiledPasses[i].active /\ AccessesOn(m_passes[i], h) # << >>
    /\ ActivePasses # {}

\* the graph of C12: five passes over two transient textures of one descriptor and a
\* swapchain image, the transients' lifetimes [0,1] and [2,3]
AliasScenario ==
    /\ Len(m_passes) = 5 /\ Len(m_resources) = 3
    /\ isTransient(m_resources[1]) /\ isTransient(m_resources[2])
    /\ m_resources[1].desc = m_resources[2].desc
    /\ m_resources[3].swapChain
    /\ WritesResource(m_passes[1], 1) /\ ReadAccessesOn(m_passes[2], 1) # << >>
    /\ WritesResource(m_passes[3], 2) /\ ReadAccessesOn(m_passes[4], 2) # << >>
    /\ \A i \in {3, 4, 5} : AccessesOn(m_passes[i], 1) = << >>
    /\ \A i \in {1, 2, 5} : AccessesOn(m_passes[i], 2) = << >>
    /\ WritesResource(m_passes[5], 3)

\* C12: in the graph where P1 writes transient T1, P2 reads T1, P3 writes transient T2
\* of the same descriptor, P4 reads T2 and all feed a final swapchain pass, once
\* execute has allocated the resources T1 and T2 are bound to the same physical
\* backing and exactly one backing has been created.
C12_DisjointTransientsShareBacking ==
    (m_compiled /\ AliasScenario)
    => /\ m_resources[1].physical # nullptr
       /\ m_resources[1].physical = m_resources[2].physical
       /\ Cardinality(m_frameTextures) = 1

\* C13: every transient backing allocated in a frame is returned to the pool at the
\* end of the frame, so in the frame after one that was executed with a used
\* transient, the same transient (same descriptor) declared again is allocated from
\* the pool: execute creates no new backing.
C13_NextFrameHitsPool ==
    (/\ pc = "record" /\ submits # << >>
     /\ \E h \in 1..Len(m_resources) : NeedsBacking(m_resources[h]))
    => m_frameTextures = {}

\* C14: when advanceFrame returns on a manager of N slots whose index was i, the
\* index is (i + 1) mod N, that slot's fence was waited on and then reset and is
\* unsignaled, the slot's wait and signal lists are empty, its bundle still carries
\* the slot's fence, and no other slot's fence or bundle changed.
C14_AdvanceRotatesOneSlot ==
    [][(Len(fenceCalls') = Len(fenceCalls) + 2) =>
        LET N == m_maxFramesInFlight
            n == (m_currentFrame + 1) % N
            k == Len(fenceCalls)
        IN /\ m_currentFrame' = n
           /\ fenceCalls'[k + 1].op = "waitForFences"
           /\ fenceCalls'[k + 1].fence = InFlightFence(n)
           /\ fenceCalls'[k + 2].op = "resetFences"
           /\ fenceCalls'[k + 2].fence = InFlightFence(n)
           /\ ~fenceSignaled'[n + 1]
           /\ m_frameSyncInfos'[n + 1].waitSemaphores = << >>
           /\ m_frameSyncInfos'[n + 1].signalSemaphores = << >>
           /\ m_frameSyncInfos'[n + 1].executionFence = InFlightFence(n)
           /\ \A s \in (1..N) \ {n + 1} :
                 /\ m_frameSyncInfos'[s] = m_frameSyncInfos[s]
                 /\ fenceSignaled'[s] = fenceSignaled[s]]_vars

C14_Witness ==
    /\ m_maxFramesInFlight >= 2
    /\ Len(fenceCalls) >= 4
    /\ fenceCalls[Len(fenceCalls)].op = "resetFences"
    /\ fenceCalls[Len(fenceCalls)].fence = InFlightFence(m_currentFrame)
    /\ CurrentFrameSync.waitSemaphores = << >>
    /\ submits # << >>
    /\ \E s \in 1..m_maxFramesInFlight :
          /\ s # m_currentFrame + 1
          /\ m_frameSyncInfos[s].waitSemaphores # << >>
          /\ m_frameSyncInfos[s].signalSemaphores # << >>

\* the waitForFences calls made so far, in order
IsWait(c) == c.op = "waitForFences"
Waits == SelectSeq(fenceCalls, IsWait)

\* the history is that of the frame loop on two slots: every frame was executed
\* with the current slot's bundle, and advanceFrame was called once after each
\* frame and returned
LoopOrder ==
    /\ m_maxFramesInFlight = 2
    /\ \A j \in 1..Len(submits) : submits[j].fence # "none"
    /\ \A a \in 1..Len(Waits) :
          Waits[a].submitted = a /\ Waits[a].waitResult = "eSuccess"

\* C15: in the frame loop on a manager of two slots, no step of execute waits on
\* a fence, and the advanceFrame that precedes frame k+2 waits on the fence that
\* was attached to the submission of frame k.
C15_AdvanceWaitsOnFrameBeforeLast ==
    [][/\ (pc # "idle" \/ pc' # "idle") => fenceCalls' = fenceCalls
       /\ LoopOrder' =>
             \A k \in 1..Len(submits') :
                Len(Waits') >= k + 1 => Waits'[k + 1].fence = submits'[k].fence]_vars

C15_Witness ==
    /\ LoopOrder
    /\ Len(submits) >= 3
    /\ Len(Waits) >= 3
    /\ Waits[2].fence = submits[1].fence
    /\ Waits[3].fence = submits[2].fence
    /\ submits[1].fence # submits[2].fence

\* C16 as stated: on a manager of any N >= 1 slots, once advanceFrame has been
\* called exactly N + 1 times since construction, the fence of the slot that was
\* current right after construction has been waited on exactly once.
C16_FirstFenceWaitedOnce ==
    Len(Waits) = m_maxFramesInFlight + 1 =>
        CountCalls(fenceCalls, "waitForFences", InFlightFence(0)) = 1

\* C16 amended: the same for a manager of N >= 2 slots.
C16_FirstFenceWaitedOnceTwoSlots ==
    (m_maxFramesInFlight >= 2 /\ Len(Waits) = m_maxFramesInFlight + 1) =>
        CountCalls(fenceCalls, "waitForFences", InFlightFence(0)) = 1

C16_Witness ==
    /\ m_maxFramesInFlight >= 2
    /\ Len(Waits) = m_maxFramesInFlight + 1
    /\ Waits[m_maxFramesInFlight].fence = InFlightFence(0)
    /\ CountCalls(fenceCalls, "waitForFences", InFlightFence(0)) = 1

\* the number of rendering scopes open at the end of a command sequence; -1 when
\* the sequence opens a scope inside another, closes one that is not open, or
\* records a barrier or the end of the command buffer inside a scope
RECURSIVE ScopeDepth(_)
ScopeDepth(commands) ==
    IF commands = << >> THEN 0
    ELSE LET before == ScopeDepth(SubSeq(commands, 1, Len(commands) - 1))
             last == commands[Len(commands)]
         IN IF before = -1 THEN -1
            ELSE IF last.op = "beginRendering" THEN (IF before = 0 THEN 1 ELSE -1)
            ELSE IF last.op = "endRendering" THEN (IF before = 1 THEN 0 ELSE -1)
            ELSE IF last.op \in {"pipelineBarrier", "end"} THEN (IF before = 0 THEN 0 ELSE -1)
            ELSE before

\* C17: rendering scopes are bracketed per pass: a scope is open only between the
\* begin of a graphics pass and the end of its callback, whether the callback
\* returned or threw; every scope is closed once before the next pass's barriers
\* and before the end of the command buffer; none is opened inside another and
\* none is closed that was not opened.
C17_ScopesBracketed ==
    /\ pc # "callback" => ~m_insideGraphicsPass
    /\ pc = "record" => ScopeDepth(cmd) = 0
    /\ pc = "callback" => ScopeDepth(cmd) = (IF m_insideGraphicsPass THEN 1 ELSE 0)
    /\ \A j \in 1..Len(submits) : ScopeDepth(submits[j].commands) = 0

\* some pass holds a declaration that names a non-zero handle with no record
DanglingDeclaration ==
    \E i \in 1..Len(m_passes) :
        \/ \E h \in TextureDecls(m_passes[i]) : ~IsTexture(m_resources, h)
        \/ \E h \in BufferDecls(m_passes[i]) : ~IsBuffer(m_resources, h)

\* C18: a graph with a declaration that names a non-zero handle with no resource
\* record raises an error no later than the compile step of execute: it is never
\* compiled, and nothing of it is submitted.
C18_UnknownHandleRejected ==
    DanglingDeclaration => (~m_compiled /\ result # "ok" /\ submits = << >>)

\* a call of the builder failed with a programming error before the graph was
\* compiled (the caller may have caught the exception since)
ProgrammingErrorRaised ==
    result \in {"error", "caught"} /\ ~m_compiled /\ ~builderExecuted

\* C19: once an operation of the builder has failed with a programming error
\* before or during compile, every later mutating call and every later execute
\* fails: no pass, declaration or resource is added, no execute gets past compile
\* and nothing is submitted.
C19_FailedBuilderStaysFailed ==
    [][ProgrammingErrorRaised =>
          /\ ProgrammingErrorRaised'
          /\ m_passes' = m_passes
          /\ Len(m_resources') = Len(m_resources)
          /\ pc' = "idle"
          /\ submits' = submits]_vars

\* a recorded command names resource h: a barrier on it, or a rendering scope with
\* it as an attachment
Involves(commands, h) ==
    \E k \in 1..Len(commands) :
        \/ /\ commands[k].op = "pipelineBarrier"
           /\ \E b \in 1..Len(commands[k].barriers) : commands[k].barriers[b].handle = h
        \/ /\ commands[k].op = "beginRendering"
           /\ (h \in commands[k].colorAttachments \/ h = commands[k].depthAttachment)

\* the external resources some pass reads
ExternalsRead ==
    { h \in 1..Len(m_resources) :
        isExternal(m_resources[h]) /\ \E i \in PassPositions : h \in ReadsOf(m_passes[i]) }

\* the builder was destroyed without a call of execute, and its destructor has
\* submitted the graph: the last submission is the destructor's
Discarded == destructor = "execute" /\ pc = "idle" /\ result = "ok"

DiscardedCommands == submits[Len(submits)].commands

\* C20 as stated: when passes that read an external resource R were declared and
\* the builder is discarded without execute having been called, nothing that
\* involves R is submitted: no barrier or layout transition on R, no write to R.
C20_DiscardSubmitsNothingOnExternal ==
    Discarded =>
        \A h \in ExternalsRead :
            ~Involves(DiscardedCommands, h)

\* C20 amended: the same when none of the passes that declare R is needed by a
\* root pass, so that all of them are culled.
C20_DiscardSubmitsNothingOnCulled ==
    Discarded =>
        \A h \in ExternalsRead :
            (\A i \in BackwardClosure(RootPasses) :
                 h \notin ReadsOf(m_passes[i]) \cup WritesOf(m_passes[i]))
            => ~Involves(DiscardedCommands, h)

\* the destructor has executed and submitted a graph in which a culled pass reads
\* an external texture
C20_Witness ==
    /\ Discarded /\ Len(DiscardedCommands) > 2
    /\ \E h \in ExternalsRead :
          /\ \A i \in BackwardClosure(RootPasses) :
                h \notin ReadsOf(m_passes[i]) \cup WritesOf(m_passes[i])
          /\ m_resources[h].physical # nullptr
          /\ \E i \in PassPositions :
                /\ h \in ReadsOf(m_passes[i])
                /\ LastAccessOn(m_passes[i], h).layout # m_resources[h].currentLayout

\* C21: inside the callback of a pass, getTextureView(h) of a texture the pass
\* declares is never null: it is the view of h's physical image for a transient or
\* registered external texture, and the view of the swapchain slot for a handle that
\* importSwapChainImage returned.
C21_TextureViewOfBacking ==
    pc = "callback" =>
        \A h \in TextureDecls(m_passes[passIndex + 1]) :
            /\ getTextureView(m_resources, h) # nullptr
            /\ ~m_resources[h].swapChain =>
                  /\ m_resources[h].physical # nullptr
                  /\ getTextureView(m_resources, h) = << "view", m_resources[h].physical >>

\* C22: every access to the map of per-thread pools is made while holding the
\* manager's mutex, and the contents of a per-thread pool are read or modified only
\* by the thread that owns the pool, whatever allocate, handle destruction,
\* resetCommandPool(threadId), getStats and cleanup the threads issue.
C22_PoolTouchedByOwnerOnly ==
    \A a \in accesses :
        /\ a.object = "m_threadPools" => a.locked
        /\ a.object = "ThreadCommandPool" => threadCommandPools[a.id].owner = a.thread

\* C26: a command buffer is never reset and handed out again by allocate while a
\* queue submission that uses it has not completed on the device.
C26_NoResetWhilePending ==
    \A a \in accesses : a.object = "reset" => a.id \notin pendingBuffers

\* C30: when a thread allocates or recycles a command buffer through manager M,
\* the thread pool it operates on is registered in M's own map and its Vulkan
\* command pool has not been destroyed, also with several managers and after a
\* cleanup run by another thread.
C30_PoolRegisteredAndAlive ==
    \A a \in accesses :
        (a.object = "ThreadCommandPool" /\ ~a.locked) =>
            /\ a.id \in PoolsOf(a.manager)
            /\ ~threadCommandPools[a.id].destroyed

\* the barriers of a submission, pass for pass: each pipeline barrier command and the
\* callback of the pass it precedes
BarrierLists(commands) ==
    SelectSeq(commands, LAMBDA c : c.op \in {"pipelineBarrier", "callback"})

RECURSIVE WorldOf(_)
WorldOf(n) ==
    IF m_parent[n] = 0 THEN getLocalMatrix(m_transform[n])
    ELSE Product(WorldOf(m_parent[n]), getLocalMatrix(m_transform[n]))

\* C24: after any sequence of transform modifiers, addChild and removeChild, the
\* matrix getWorldMatrix returns for a node is its current parent's world matrix
\* times its own current local matrix (the local matrix alone without a parent),
\* and a node whose cache is marked clean holds exactly that matrix.
C24_WorldMatrixNeverStale ==
    SceneAlive =>
        /\ worldMatrixReturned.node # 0 =>
               worldMatrixReturned.value = WorldOf(worldMatrixReturned.node)
        /\ \A n \in Nodes : ~m_worldMatrixDirty[n] => m_cachedWorldMatrix[n] = WorldOf(n)

\* a node two levels down whose cache was filled before the topmost node was moved
\* and asked for its matrix again
C24_Witness ==
    /\ SceneAlive
    /\ worldMatrixReturned.node # 0
    /\ \E n \in Nodes :
          /\ m_worldMatrixDirty[n]
          /\ Len(m_cachedWorldMatrix[n]) = 3
          /\ Len(WorldOf(n)) = 3
          /\ m_cachedWorldMatrix[n] # WorldOf(n)
          /\ ~m_worldMatrixDirty[m_parent[m_parent[n]]]
          /\ worldMatrixReturned.node = m_parent[m_parent[n]]

\* C25: whenever the sync manager is inside a fence wait (advanceFrame, waitAll, the
\* destructor's waitAll), every fence it waits on is already signaled or attached
\* to a submission the device has yet to complete, so the wait returns.
C25_WaitedFenceWillSignal ==
    \A w \in waitingOn : Signaled(w.fence) \/ Pending(w.fence)

\* the backings that exist: those the graph created and holds, and those in its pools
LiveBackings ==
    m_frameTextures
    \cup { m_texturePool[i].backing : i \in 1..Len(m_texturePool) }
    \cup { m_bufferPool[i].backing : i \in 1..Len(m_bufferPool) }

\* the transient resources the commands of the graph's own submission name
TransientsSubmitted ==
    { h \in 1..Len(m_resources) :
        /\ isTransient(m_resources[h])
        /\ m_resources[h].physical # nullptr
        /\ Involves(submits[Len(submits)].commands, h) }

\* C27: while the device has not finished the submission a graph made, the
\* transient backings that submission uses exist, also after the builder (a local
\* of the frame loop) has been destroyed right after its non-blocking execute.
C27_BackingsOutliveSubmission ==
    (m_executed /\ deviceCompleted < Len(submits)) =>
        \A h \in TransientsSubmitted : m_resources[h].physical \in LiveBackings

\* C28: over the life of one builder, with every explicit execute (also those that
\* failed part-way) and the destructor's automatic execute counted, compile runs
\* to completion at most once and the command buffer is submitted at most once:
\* compile completes only on a graph not yet compiled, a submission is made only
\* by a graph that has made none, and only a new builder starts the count again.
C28_CompileAndSubmitOnce ==
    [][/\ (pc = "idle" /\ pc' = "record") => (~m_compiled /\ m_compiled')
       /\ (m_compiled' /\ ~m_compiled) => (pc = "idle" /\ pc' = "record")
       /\ Len(submits') # Len(submits) =>
             /\ Len(submits') = Len(submits) + 1
             /\ ~m_executed /\ m_executed'
       /\ ((m_compiled /\ ~m_compiled') \/ (m_executed /\ ~m_executed')) =>
             (destructor = "done" /\ destructor' = "none")]_vars

\* the destructor's automatic execute was turned away on a builder whose explicit
\* execute had compiled and then failed before the submission
C28_Witness ==
    /\ destructor = "execute" /\ pc = "idle" /\ result = "error"
    /\ m_compiled /\ ~m_executed /\ ~builderExecuted

\* C29: no resource-manager operation comes to acquire the manager's mutex while
\* the calling thread already holds it, so no caller blocks for ever on itself.
C29_NoRelockByOwner ==
    \A t \in Threads :
        Inside(t) => /\ Top(t).at = "lock" => m_mtx # t
                     /\ Top(t).at # "blocked"
====
